---- MODULE Spec2Model ----
(***************************************************************************)
(* A model of the campaign synchronisation engine:                         *)
(*   - SyncService.syncCampaignsWithConcurrency / syncSingleCampaign        *)
(*     (src/src/services/syncService.ts)          -> SpecDispatch           *)
(*   - AuthManager (src/src/auth/authManager.ts)  -> SpecAuth               *)
(*   - AdPlatformClient.fetchAllCampaigns / makeRequest                     *)
(*     (src/unnamed/part_020) over retryWithBackoff (src/unnamed/part_004)  *)
(*                                                -> SpecClient             *)
(*   - CampaignRepository.saveCampaign            -> SpecRepo, SpecRepoSeq  *)
(*   - SyncService.syncAllCampaigns               -> SpecRun, SpecPipeline  *)
(*   - main, the signal handlers and the pool     -> SpecProc               *)
(*   - the page-by-page loops, the backoff delays and syncCampaign of the   *)
(*     repository's other drivers     -> SpecPager, SpecBackoff, SpecCamp   *)
(*   - fetchWithRetry / syncCampaignWithRetry (syncCampaigns.ts)            *)
(*                                                -> SpecRetrier            *)
(*   - the paginated fetch loops of api/client.ts, of                       *)
(*     repositories/campaignRepository.ts and of part_015                   *)
(*                                        -> SpecLister, SpecListerFair     *)
(*   - createConcurrencyPool, runWithConcurrency (utils/concurrency.ts)     *)
(*                                                -> SpecCPool, SpecRwc     *)
(*   - enforceClientRateLimit (part_022)          -> SpecLimiter            *)
(*   - GET /api/campaigns of mock-api/server.js   -> SpecMock               *)
(* Each specification drives one component; the variables of the other     *)
(* components keep their initial values under it.                          *)
(***************************************************************************)
EXTENDS Integers, Sequences, FiniteSets, TLC

VARIABLES
  \* ---- SyncService (dispatcher) ----
  numCampaigns,   \* campaigns.length, the input of syncCampaignsWithConcurrency
  opFails,        \* environment: which step of campaign c's operation throws
  useMock,        \* config.database.useMock
  batchIndex,     \* the for-loop variable of the batch loop
  dpc,            \* position of syncCampaignsWithConcurrency
  op,             \* position of each syncSingleCampaign call
  results         \* the shared SyncResult object

dispVars == <<numCampaigns, opFails, useMock, batchIndex, dpc, op, results>>

VARIABLES
  \* ---- AuthManager and the auth endpoint ----
  now,            \* Date.now(), in milliseconds
  accessToken,    \* AuthManager.accessToken (NULL or a token)
  tokenExpiry,    \* AuthManager.tokenExpiry, in seconds
  srvLifetime,    \* the auth endpoint's TOKEN_EXPIRY_TIME (expires_in, seconds)
  issued,         \* the number of tokens the auth endpoint has issued
  authCalls,      \* network calls made to POST /auth/token
  authRetries,    \* those of them that repeat a failed attempt
  cleared,        \* the tokens that clearToken() has dropped from the cache
  \* ---- callers of AuthManager.getAccessToken ----
  cpc,            \* position of each caller's getAccessToken call
  attempt,        \* retryWithBackoff's attempt of the caller's refreshToken
  wakeAt,         \* when the caller's backoff sleep ends
  call,           \* what the caller's current call saw and did
  callsStarted,   \* getAccessToken calls started so far
  missCalls       \* those started while no token was within its validity window

authVars == <<now, accessToken, tokenExpiry, srvLifetime, issued, authCalls,
              authRetries, cleared>>
callerVars == <<cpc, attempt, wakeAt, call, callsStarted, missCalls>>

VARIABLES
  \* ---- the Ad Platform API as AdPlatformClient sees it ----
  srvProfile,     \* how the remote behaves during this run
  srvPages,       \* K: has_more is false on page K only (when it is honest)
  srvLastCount,   \* the number of records on page K
  faults,         \* the faults the remote has injected so far
  \* ---- AdPlatformClient.fetchAllCampaigns and its makeRequest ----
  fpc,            \* position of fetchAllCampaigns / makeRequest
  page,           \* let page
  hasMore,        \* let hasMore
  allCampaigns,   \* const allCampaigns
  fetched,        \* the pages whose request has returned a page, in time order
  stack,          \* attempt counters of the nested retryWithBackoff calls
  wake,           \* when the current wait or backoff sleep ends
  req             \* what has happened to the current logical request

srvVars == <<srvProfile, srvPages, srvLastCount>>
clientVars == <<srvVars, faults, fpc, page, hasMore, allCampaigns, fetched,
                stack, wake, req>>

VARIABLES
  \* ---- CampaignRepository and the campaigns table ----
  table,          \* the rows of the campaigns table
  dbClock,        \* the database server's clock
  repoWorkers,    \* the callers of saveCampaign that may run at the same time
  wpc,            \* position of each caller's saveCampaign call
  stmt,           \* the statement each caller has sent to the pool
  saved           \* per id: what the writes applied so far have stored

repoVars == <<table, dbClock, repoWorkers, wpc, stmt, saved>>

VARIABLES
  \* ---- SyncService.syncAllCampaigns ----
  rpc,            \* position of syncAllCampaigns
  runCause        \* what made syncAllCampaigns throw

runVars == <<rpc, runCause>>

VARIABLES
  \* ---- the process (index.ts) and the connection pool (database/pool.ts) ----
  pool,           \* let pool: 0 is null, n > 0 is the n-th Pool created
  poolsCreated,   \* new Pool(...) calls so far
  poolState,      \* per Pool created: "open", "ending" or "ended"
  endCalls,       \* per Pool created: the pool.end() calls made on it
  handedOut,      \* the Pools that getPool() has returned
  refused,        \* campaigns whose query went to a Pool that was ending
  mpc,            \* position of main()
  hpc,            \* position of the handler of each signal received
  exitCode        \* the exit status; Running while the process is alive

procVars == <<pool, poolsCreated, poolState, endCalls, handedOut, refused,
              mpc, hpc, exitCode>>

VARIABLES
  \* ---- the other drivers and helpers of the repository ----
  pager,          \* a page-by-page sync loop: its locals and the remote's pages
  backoff,        \* a retry loop about to sleep: its attempt and its delay
  camp            \* one syncCampaign / processCampaign call

altVars == <<pager, backoff, camp>>

VARIABLES
  \* ---- retry helpers, fetch loops, concurrency helpers, the mock API ----
  retrier,        \* one fetchWithRetry / syncCampaignWithRetry call
  lister,         \* one paginated fetch loop of the other drivers
  cpool,          \* a pool of createConcurrencyPool and its run calls
  rwc,            \* one runWithConcurrency call
  limiter,        \* the client-side rate limiter and its callers
  mock            \* the mock API's list endpoint

extVars == <<retrier, lister, cpool, rwc, limiter, mock>>

vars == <<dispVars, authVars, callerVars, clientVars, repoVars, runVars,
          procVars, altVars, extVars>>

\* ------------------------------------------------------------------ bounds

MaxCampaigns == 5

MaxNowSec == 2
MaxCalls == 3

MaxSrvPages == 2
MaxRateLimits == 1
MaxFaults == 3
MaxThrottled == 12
MaxPageRequests == 102
MaxRecoveringPages == 2

MaxDbClock == 2
MaxWrites == 3

MaxProcCampaigns == 4
MaxSignals == 2

MaxLoopPages == 2
MaxBackoffAttempt == 6
MaxSync429 == 2

MaxRetries == 3
MaxListPages == 2
MaxPageTries == 12

MaxPoolLimit == 2
MaxRunCalls == 4

MaxItems == 3
MaxWorkers == 2

MaxLimiterCalls == 13
MaxSlowCalls == 1
MaxLimiterCallers == 2

MaxMockRequests == 20

\* --------------------------------------------------------------- helpers

Min(a, b) == IF a < b THEN a ELSE b

\* Array.prototype.slice(from, to) on a sequence indexed from 1 (JS index i is
\* TLA+ index i + 1); to is clamped to the length.
Slice(s, from, to) ==
  [i \in 1..(Min(to, Len(s)) - Min(from, Len(s))) |-> s[from + i]]

\* ===================================================================
\* SyncService
\* ===================================================================

concurrency == 3

\* The campaigns array: campaign ids 1..numCampaigns in fetch order.
campaigns == [i \in 1..numCampaigns |-> i]

\* slice(i, i + concurrency) of one step of the batching loop, with the end
\* taken one element too far.
BatchSliceOffByOne(i) == Slice(campaigns, i, i + concurrency + 1)

\* campaigns.slice(i, i + concurrency)
BatchSlice(i) == Slice(campaigns, i, i + concurrency)

RECURSIVE BuildBatches(_)
\* for (let i = 0; i < campaigns.length; i += concurrency) batches.push(slice)
BuildBatches(i) ==
  IF i < numCampaigns
    THEN <<BatchSlice(i)>> \o BuildBatches(i + concurrency)
    ELSE <<>>

batches == BuildBatches(0)

Range(s) == {s[i] : i \in 1..Len(s)}

\* The campaigns of the batch the loop is at (batches[batchIndex]).
CurrentBatch ==
  IF batchIndex < Len(batches) THEN Range(batches[batchIndex + 1]) ELSE {}

\* syncSingleCampaign calls that have started and not finished.
InFlight == {c \in 1..numCampaigns : op[c] \in {"sync", "save"}}

\* The catch block counting a failure as a success.
OnFailureMiscounted(c) ==
  [results EXCEPT !.successCount = @ + 1]

\* catch block of syncSingleCampaign: results.failureCount++, errors.push
OnFailure(c) ==
  [results EXCEPT !.failureCount = @ + 1,
                  !.errors = Append(@, c)]

\* results.successCount++
OnSuccess(c) == [results EXCEPT !.successCount = @ + 1]

\* syncCampaign throws: the request failed, or getAccessToken failed because
\* the auth endpoint rejected the credentials ("auth").
SyncThrowsFor(c) == opFails[c] \in {"sync", "auth"}

\* saveCampaign throws only against a real database whose query fails.
SaveThrowsFor(c) == ~useMock /\ opFails[c] = "save"

DispatchCore ==
  /\ numCampaigns \in 0..MaxCampaigns
  /\ opFails \in [1..numCampaigns -> {"none", "sync", "save"}]
  /\ useMock \in BOOLEAN
  /\ batchIndex = 0
  /\ dpc = "loop"
  /\ op = [c \in 1..numCampaigns |-> "pending"]
  /\ results = [totalCampaigns |-> numCampaigns, successCount |-> 0,
                failureCount |-> 0, errors |-> <<>>]

\* batch.map(campaign => this.syncSingleCampaign(campaign, results)): every
\* call of the batch runs to its first await (the remote sync call).
StartBatch ==
  /\ dpc = "loop"
  /\ batchIndex < Len(batches)
  /\ op' = [c \in 1..numCampaigns |->
              IF c \in CurrentBatch THEN "sync" ELSE op[c]]
  /\ dpc' = "await"
  /\ UNCHANGED <<numCampaigns, opFails, useMock, batchIndex, results>>

\* adPlatformClient.syncCampaign(campaign.id) resolves; saveCampaign is called.
SyncResolves(c) ==
  /\ op[c] = "sync"
  /\ ~SyncThrowsFor(c)
  /\ op' = [op EXCEPT ![c] = "save"]
  /\ UNCHANGED <<numCampaigns, opFails, useMock, batchIndex, dpc, results>>

\* adPlatformClient.syncCampaign(campaign.id) rejects; the catch block runs.
SyncThrows(c) ==
  /\ op[c] = "sync"
  /\ SyncThrowsFor(c)
  /\ results' = OnFailure(c)
  /\ op' = [op EXCEPT ![c] = "settled"]
  /\ UNCHANGED <<numCampaigns, opFails, useMock, batchIndex, dpc>>

\* campaignRepository.saveCampaign(campaign) resolves.
SaveResolves(c) ==
  /\ op[c] = "save"
  /\ ~SaveThrowsFor(c)
  /\ results' = OnSuccess(c)
  /\ op' = [op EXCEPT ![c] = "settled"]
  /\ UNCHANGED <<numCampaigns, opFails, useMock, batchIndex, dpc>>

\* campaignRepository.saveCampaign(campaign) rejects with 'Database error'.
SaveThrows(c) ==
  /\ op[c] = "save"
  /\ SaveThrowsFor(c)
  /\ results' = OnFailure(c)
  /\ op' = [op EXCEPT ![c] = "settled"]
  /\ UNCHANGED <<numCampaigns, opFails, useMock, batchIndex, dpc>>

\* A join that resumes as soon as one promise of the batch has settled.
AnySettled(batch) == \E c \in batch : op[c] = "settled"

\* Promise.allSettled(batchPromises) is fulfilled once every promise of the
\* batch has settled.
AllSettled(batch) == \A c \in batch : op[c] = "settled"

\* await Promise.allSettled(batchPromises) resumes; then the 100 ms pause
\* unless this was the last batch.
BatchSettled ==
  /\ dpc = "await"
  /\ AllSettled(CurrentBatch)
  /\ IF batchIndex < Len(batches) - 1
       THEN dpc' = "delay" /\ batchIndex' = batchIndex
       ELSE dpc' = "loop" /\ batchIndex' = batchIndex + 1
  /\ UNCHANGED <<numCampaigns, opFails, useMock, op, results>>

\* the setTimeout(resolve, 100) between batches fires; batchIndex++
DelayDone ==
  /\ dpc = "delay"
  /\ dpc' = "loop"
  /\ batchIndex' = batchIndex + 1
  /\ UNCHANGED <<numCampaigns, opFails, useMock, op, results>>

\* return results
ReturnResults ==
  /\ dpc = "loop"
  /\ batchIndex >= Len(batches)
  /\ dpc' = "returned"
  /\ UNCHANGED <<numCampaigns, opFails, useMock, batchIndex, op, results>>

\* ===================================================================
\* retryWithBackoff (utils/retry)
\* ===================================================================

maxAttempts == 5
baseDelay == 1000


\* Errors carry what isRetryableError reads: code, whether the message contains
\* 'timeout', and status (0 when the error has no status property).
Err(kind, code, timeoutMsg, status) ==
  [kind |-> kind, code |-> code, timeoutMsg |-> timeoutMsg, status |-> status]

\* isRetryableError(error)
IsRetryableError(error) ==
  IF error.code \in {"ECONNRESET", "ECONNREFUSED", "ETIMEDOUT"} THEN TRUE
  ELSE IF error.timeoutMsg THEN TRUE
  ELSE IF error.status = 503 THEN TRUE
  ELSE IF error.status >= 400 /\ error.status < 500 /\ error.status # 429
    THEN FALSE
  ELSE IF error.status = 429 THEN TRUE
  ELSE IF error.status >= 500 THEN TRUE
  ELSE FALSE

RECURSIVE Pow2(_)
Pow2(n) == IF n <= 0 THEN 1 ELSE 2 * Pow2(n - 1)

\* const delay = baseDelay * Math.pow(2, attempt - 1)
BackoffDelay(att) == baseDelay * Pow2(att - 1)

\* The give-up test one attempt early.
RetryGivesUpEarly(error, att) ==
  ~IsRetryableError(error) \/ att >= maxAttempts - 1

\* if (!shouldRetryError || attempt >= maxAttempts) throw error
RetryGivesUp(error, att) == ~IsRetryableError(error) \/ att >= maxAttempts

\* ===================================================================
\* AuthManager
\* ===================================================================

REFRESH_BUFFER == 60

\* Math.floor(Date.now() / 1000)
NowSec == now \div 1000

\* The lifetimes the auth endpoint may grant (expires_in, seconds).
ExpiresInChoices == {REFRESH_BUFFER, REFRESH_BUFFER + 1, REFRESH_BUFFER + 2}

\* A token response: access_token (told apart by a serial number), issued_at
\* and expires_in. NULL is the absent token.
Token(n, at, e) == [serial |-> n, issued_at |-> at, expires_in |-> e]
NULL == Token(0, 0, 0)

\* The cache test with the refresh buffer left out.
TokenUsableNoBuffer(t) == accessToken # NULL /\ t < tokenExpiry

\* The cache test with the buffer taken off twice.
TokenUsableDoubleBuffer(t) ==
  accessToken # NULL /\ t < (tokenExpiry - REFRESH_BUFFER) - REFRESH_BUFFER

\* if (this.accessToken && now < (this.tokenExpiry - this.REFRESH_BUFFER))
TokenUsable(t) == accessToken # NULL /\ t < (tokenExpiry - REFRESH_BUFFER)

\* The errors refreshToken's attempt can end in.
AuthTimeout == Err("authTimeout", "none", TRUE, 0)
AuthNetError == Err("authNet", "ECONNRESET", FALSE, 0)
AuthRejected == Err("authFailed", "none", FALSE, 0)
AuthNoToken == Err("noToken", "none", FALSE, 0)

\* The error an unsuccessful attempt throws inside retryWithBackoff: a non-2xx
\* status, a hang cut by the abort timer, a connection reset.
AuthError(outcome) ==
  CASE outcome = "status" -> AuthRejected
    [] outcome = "timeout" -> AuthTimeout
    [] OTHER -> AuthNetError

AuthCore ==
  /\ now = 0
  /\ accessToken = NULL
  /\ tokenExpiry = 0
  /\ srvLifetime \in ExpiresInChoices
  /\ issued = 0
  /\ authCalls = 0
  /\ authRetries = 0
  /\ cleared = {}

\* Two callers: calls one after another and calls that overlap.
Callers == {1, 2}

NoCall == [startSec |-> 0, cached |-> NULL, inWindow |-> FALSE, net |-> 0,
           ret |-> NULL, stale |-> FALSE]

CallerCore ==
  /\ cpc = [p \in Callers |-> "idle"]
  /\ attempt = [p \in Callers |-> 0]
  /\ wakeAt = [p \in Callers |-> 0]
  /\ call = [p \in Callers |-> NoCall]
  /\ callsStarted = 0
  /\ missCalls = 0

\* Whether token tok is within its validity window at second t, by the
\* lifetime the endpoint granted: t < issued_at + expires_in - refresh_buffer.
InValidityWindow(tok, t) ==
  /\ tok # NULL
  /\ t < tok.issued_at + tok.expires_in - REFRESH_BUFFER

\* getAccessToken(): the cached token is returned at once, or refreshToken
\* starts and its first POST /auth/token is in flight.
GetAccessTokenCall(p) ==
  /\ cpc[p] \in {"idle", "returned", "threw"}
  /\ LET win == InValidityWindow(accessToken, NowSec) /\ accessToken \notin cleared
         rec == [startSec |-> NowSec, cached |-> accessToken, inWindow |-> win,
                 net |-> 0, ret |-> NULL, stale |-> FALSE]
     IN IF TokenUsable(NowSec)
          THEN /\ cpc' = [cpc EXCEPT ![p] = "returned"]
               /\ call' = [call EXCEPT ![p] =
                    [rec EXCEPT !.ret = accessToken,
                                !.stale = accessToken \in cleared]]
               /\ UNCHANGED attempt
          ELSE /\ cpc' = [cpc EXCEPT ![p] = "fetching"]
               /\ attempt' = [attempt EXCEPT ![p] = 1]
               /\ call' = [call EXCEPT ![p] = [rec EXCEPT !.net = 1]]
  /\ UNCHANGED <<now, accessToken, tokenExpiry, srvLifetime, issued, cleared,
                 wakeAt>>

\* A caller calls getAccessToken(); the calls and the network calls are counted.
GetAccessToken(p) ==
  /\ callsStarted < MaxCalls
  /\ GetAccessTokenCall(p)
  /\ callsStarted' = callsStarted + 1
  /\ missCalls' =
       IF InValidityWindow(accessToken, NowSec) /\ accessToken \notin cleared
         THEN missCalls ELSE missCalls + 1
  /\ authCalls' = authCalls + call'[p].net
  /\ UNCHANGED authRetries

\* The auth endpoint answers with a token: refreshToken stores it
\* (accessToken, tokenExpiry = issued_at + expires_in) and getAccessToken
\* returns this.accessToken, or throws when the response carried none.
AuthResponds(p, hasToken) ==
  /\ cpc[p] = "fetching"
  /\ LET tok == Token(issued + 1, NowSec, srvLifetime)
     IN /\ issued' = issued + 1
        /\ accessToken' = IF hasToken THEN tok ELSE NULL
        /\ tokenExpiry' = tok.issued_at + tok.expires_in
        /\ cpc' = [cpc EXCEPT ![p] = IF hasToken THEN "returned" ELSE "threw"]
        /\ call' = [call EXCEPT ![p].ret = IF hasToken THEN tok ELSE NULL]
  /\ attempt' = [attempt EXCEPT ![p] = 0]
  /\ UNCHANGED <<now, srvLifetime, cleared, wakeAt>>

\* The attempt throws (non-2xx status, abort timeout, connection reset):
\* retryWithBackoff rethrows, or sleeps baseDelay * 2^(attempt - 1) from
\* time t on.
AuthFails(p, outcome, t) ==
  /\ cpc[p] = "fetching"
  /\ IF RetryGivesUp(AuthError(outcome), attempt[p])
       THEN /\ cpc' = [cpc EXCEPT ![p] = "threw"]
            /\ attempt' = [attempt EXCEPT ![p] = 0]
            /\ UNCHANGED wakeAt
       ELSE /\ cpc' = [cpc EXCEPT ![p] = "sleeping"]
            /\ wakeAt' = [wakeAt EXCEPT ![p] = t + BackoffDelay(attempt[p])]
            /\ UNCHANGED attempt
  /\ UNCHANGED <<accessToken, tokenExpiry, srvLifetime, issued, cleared, call>>

\* The backoff sleep is over: the next attempt's POST /auth/token is issued.
AuthRetryCall(p) ==
  /\ cpc[p] = "sleeping"
  /\ cpc' = [cpc EXCEPT ![p] = "fetching"]
  /\ attempt' = [attempt EXCEPT ![p] = @ + 1]
  /\ call' = [call EXCEPT ![p].net = @ + 1]
  /\ wakeAt' = [wakeAt EXCEPT ![p] = 0]
  /\ UNCHANGED <<accessToken, tokenExpiry, srvLifetime, issued, cleared>>

\* A caller's backoff sleep ends; the network calls are counted.
AuthRetry(p) ==
  /\ now >= wakeAt[p]
  /\ AuthRetryCall(p)
  /\ authCalls' = authCalls + 1
  /\ authRetries' = authRetries + 1
  /\ UNCHANGED <<now, callsStarted, missCalls>>

\* clearToken() with the token left in place.
ClearTokenExpiryOnly == accessToken' = accessToken /\ tokenExpiry' = tokenExpiry

\* clearToken(): this.accessToken = null; this.tokenExpiry = 0
ClearTokenFields == accessToken' = NULL /\ tokenExpiry' = 0

\* clearToken() is called while a token is cached.
ClearToken ==
  /\ accessToken # NULL
  /\ cleared' = cleared \cup {accessToken}
  /\ ClearTokenFields
  /\ UNCHANGED <<now, srvLifetime, issued, authCalls, authRetries, callerVars>>

\* One second passes.
Tick ==
  /\ NowSec < MaxNowSec
  /\ now' = now + 1000
  /\ UNCHANGED <<accessToken, tokenExpiry, srvLifetime, issued, authCalls,
                 authRetries, cleared, callerVars>>

\* ===================================================================
\* AdPlatformClient
\* ===================================================================

\* fetchCampaignsPage(page, limit = 10)
limit == 10

\* config.sync.timeout.list
listTimeout == 15000

\* config.sync.timeout.auth
authTimeout == 10000

\* const waitTime = retryAfter ? parseInt(retryAfter) * 1000 : 60000
defaultRateLimitWait == 60000

\* The Retry-After headers a 429 may carry: a string of decimal digits, or
\* none (response.headers.get gives null).
NoHeader == <<>>
RetryAfterChoices == {NoHeader, <<2>>}

\* parseInt(retryAfter) of a string of decimal digits.
RECURSIVE ParseInt(_)
ParseInt(str) ==
  IF str = <<>> THEN 0
  ELSE ParseInt(SubSeq(str, 1, Len(str) - 1)) * 10 + str[Len(str)]

\* The wait with the header's seconds taken as milliseconds.
WaitTimeUnscaled(retryAfter) ==
  IF retryAfter # NoHeader THEN ParseInt(retryAfter) ELSE defaultRateLimitWait

\* retryAfter ? parseInt(retryAfter) * 1000 : 60000
WaitTime(retryAfter) ==
  IF retryAfter # NoHeader THEN ParseInt(retryAfter) * 1000
  ELSE defaultRateLimitWait

\* The records of page p of the listing: campaign ids (p - 1) * limit + i.
PageData(p) ==
  LET n == IF p < srvPages THEN limit
           ELSE IF p = srvPages THEN srvLastCount ELSE 0
  IN [i \in 1..n |-> (p - 1) * limit + i]

\* pagination.has_more of page p.
PageHasMore(p) == IF srvProfile = "flagStuck" THEN TRUE ELSE p < srvPages

\* What the remote may answer to one HTTP request. A run is one of: "mixed",
\* any fault but at most MaxFaults of them; "unavailable", any number of 503
\* answers and at most MaxRateLimits 429 answers; "stalling", any number of
\* requests left without an answer; "recovering", 503 answers but fewer than
\* maxAttempts in a row, and at most MaxRateLimits 429 answers;
\* "recoveringSlow", the same with unanswered requests in place of 503;
\* "hiccup", at most MaxRateLimits answers that are 429, 503 or 404;
\* "flagStuck", healthy but has_more is always true; "throttling", 429 to
\* every request.
Responses ==
  CASE srvProfile = "flagStuck" -> {[kind |-> "ok", status |-> 200]}
    [] srvProfile = "throttling" ->
         {[kind |-> "rateLimit", status |-> 429, retryAfter |-> r] :
            r \in RetryAfterChoices}
    [] srvProfile = "unavailable" ->
         {[kind |-> "ok", status |-> 200],
          [kind |-> "rateLimit", status |-> 429, retryAfter |-> <<2>>],
          [kind |-> "status", status |-> 503]}
    [] srvProfile = "recovering" ->
         {[kind |-> "ok", status |-> 200],
          [kind |-> "rateLimit", status |-> 429, retryAfter |-> <<2>>],
          [kind |-> "status", status |-> 503]}
    [] srvProfile = "recoveringSlow" ->
         {[kind |-> "ok", status |-> 200],
          [kind |-> "rateLimit", status |-> 429, retryAfter |-> <<2>>],
          [kind |-> "hang", status |-> 0]}
    [] srvProfile = "stalling" ->
         {[kind |-> "ok", status |-> 200], [kind |-> "hang", status |-> 0]}
    [] srvProfile = "hiccup" ->
         {[kind |-> "ok", status |-> 200],
          [kind |-> "rateLimit", status |-> 429, retryAfter |-> <<2>>],
          [kind |-> "status", status |-> 503],
          [kind |-> "status", status |-> 404]}
    [] OTHER ->
         {[kind |-> "ok", status |-> 200]}
         \cup {[kind |-> "rateLimit", status |-> 429, retryAfter |-> r] :
                 r \in RetryAfterChoices}
         \cup {[kind |-> "unauthorized", status |-> 401]}
         \cup {[kind |-> "status", status |-> c] : c \in {503, 504, 404, 408}}
         \cup {[kind |-> "hang", status |-> 0], [kind |-> "reset", status |-> 0]}

\* The remote injects one more fault of the kind: a "mixed" run has at most
\* MaxFaults faults, an "unavailable" or recovering run at most
\* MaxRateLimits 429 answers, and a recovering run fewer than maxAttempts
\* 503 answers or unanswered requests in a row; a "hiccup" run has at most
\* MaxRateLimits faults.
Fault(kind) ==
  IF srvProfile = "mixed"
    THEN faults < MaxFaults /\ faults' = faults + 1
  ELSE IF srvProfile = "hiccup"
    THEN faults < MaxRateLimits /\ faults' = faults + 1
  ELSE IF srvProfile \in {"unavailable", "recovering", "recoveringSlow"}
          /\ kind = "rateLimit"
    THEN faults < MaxRateLimits /\ faults' = faults + 1
  ELSE IF srvProfile \in {"recovering", "recoveringSlow"}
    THEN req.streak < maxAttempts - 1 /\ UNCHANGED faults
  ELSE UNCHANGED faults

\* The abort left as it is: an AbortError, 'The operation was aborted'.
RequestAborted == Err("requestTimeout", "none", FALSE, 0)

\* The errors the request function throws.
TokenExpired == Err("tokenExpired", "none", FALSE, 0)
RequestTimeout == Err("requestTimeout", "none", TRUE, 0)
NetError == Err("net", "ECONNRESET", FALSE, 0)
\* createErrorFromResponse: error.status = error.statusCode = response.status
\* The error texts of the remote: the body of a 408 says 'Request timeout'
\* (errorData.error || errorData.message); no other body mentions a timeout.
MentionsTimeout(status) == status = 408

HttpError(status) == Err("http", "none", MentionsTimeout(status), status)

RECURSIVE Unwind(_, _)
\* An error thrown in the innermost request function travels outwards through
\* the nested retryWithBackoff calls: each rethrows it (not retryable, or
\* attempt >= maxAttempts) until one is left that will sleep and try again.
\* The result is the frames that remain, empty when the request has failed.
Unwind(frames, error) ==
  IF frames = <<>> THEN <<>>
  ELSE IF RetryGivesUp(error, frames[Len(frames)])
    THEN Unwind(SubSeq(frames, 1, Len(frames) - 1), error)
  ELSE frames

\* while (hasMore) with the flag ignored.
LoopContinuesAlways(more) == TRUE

\* while (hasMore)
LoopContinues(more) == more

\* page++ stepping over a page.
NextPageSkips(p) == p + 2

\* page++
NextPage(p) == p + 1

\* allCampaigns.push(...response.data), pushing the first record only.
PushFirstOnly(all, data) == all \o SubSeq(data, 1, 1)

\* allCampaigns.push(...response.data)
PushPage(all, data) == all \o data

\* No error has left makeRequest.
NoError == Err("none", "none", FALSE, 0)

NewRequest == [n429 |-> 0, nTransient |-> 0, n401 |-> 0, lastResp |-> 0,
               prevResp |-> 0, rlAt |-> 0, rlSeconds |-> 0, issuedAt |-> 0,
               result |-> "pending", error |-> "none", thrown |-> NoError,
               nTimeout |-> 0, thrownAt |-> <<>>, streak |-> 0]

ClientCore ==
  /\ srvProfile \in {"mixed", "unavailable", "stalling", "flagStuck",
                    "throttling"}
  /\ srvPages \in 1..MaxSrvPages
  /\ srvLastCount \in {1, limit}
  /\ faults = 0
  /\ fpc = "attempt"
  /\ page = 1
  /\ hasMore = TRUE
  /\ allCampaigns = <<>>
  /\ fetched = <<>>
  /\ stack = <<1>>
  /\ wake = 0
  /\ req = NewRequest

ClientIdle ==
  /\ srvProfile = "mixed"
  /\ srvPages = 1
  /\ srvLastCount = limit
  /\ faults = 0
  /\ fpc = "done"
  /\ page = 1
  /\ hasMore = FALSE
  /\ allCampaigns = <<>>
  /\ fetched = <<>>
  /\ stack = <<>>
  /\ wake = 0
  /\ req = NewRequest

\* The client is caller 1 of the AuthManager.
Me == 1

\* The HTTP request of the current attempt goes out with the bearer token.
IssueRequest(r) == [r EXCEPT !.issuedAt = now, !.prevResp = r.lastResp]

\* The error reaches retryWithBackoff at time t: the request fails, or the
\* frame that is left sleeps before its next attempt.
Throw(error, t, r) ==
  LET left == Unwind(stack, error)
  IN /\ stack' = left
     /\ now' = t
     /\ IF left = <<>>
          THEN /\ fpc' = "failed"
               /\ req' = [r EXCEPT !.result = "failed", !.error = error.kind,
                                    !.thrown = error, !.thrownAt = stack]
               /\ UNCHANGED wake
          ELSE /\ fpc' = "backoff"
               /\ wake' = t + BackoffDelay(left[Len(left)])
               /\ req' = r

\* The request function starts: const token = await getAccessToken(); with a
\* cached token the fetch goes out at once.
StartAttempt ==
  /\ UNCHANGED faults
  /\ fpc = "attempt"
  /\ GetAccessTokenCall(Me)
  /\ IF TokenUsable(NowSec)
       THEN fpc' = "fetch" /\ req' = IssueRequest(req)
       ELSE fpc' = "auth" /\ req' = req
  /\ UNCHANGED <<srvVars, fetched, page, hasMore, allCampaigns,
                 stack, wake, authCalls, authRetries, callsStarted, missCalls>>

\* refreshToken got its token: the fetch goes out.
TokenObtained ==
  /\ UNCHANGED faults
  /\ fpc = "auth"
  /\ AuthResponds(Me, TRUE)
  /\ fpc' = "fetch"
  /\ req' = IssueRequest(req)
  /\ UNCHANGED <<srvVars, fetched, page, hasMore, allCampaigns,
                 stack, wake, authCalls, authRetries, callsStarted, missCalls>>

\* The token response carried no access_token: 'Failed to obtain access token'.
TokenMissing ==
  /\ fpc = "auth"
  /\ srvProfile = "mixed"
  /\ Fault("auth")
  /\ AuthResponds(Me, FALSE)
  /\ Throw(AuthNoToken, now, req)
  /\ UNCHANGED <<srvVars, fetched, page, hasMore, allCampaigns,
                 authCalls, authRetries, callsStarted, missCalls>>

\* An attempt of refreshToken failed: it sleeps and retries, or getAccessToken
\* throws into the request's retryWithBackoff.
TokenAttemptFails(o) ==
  /\ fpc = "auth"
  /\ srvProfile = "mixed"
  /\ Fault("auth")
  /\ LET t == IF o = "timeout" THEN now + authTimeout ELSE now
     IN /\ AuthFails(Me, o, t)
        /\ IF RetryGivesUp(AuthError(o), attempt[Me])
             THEN Throw(AuthError(o), t, req)
             ELSE now' = t /\ UNCHANGED <<fpc, stack, wake, req>>
  /\ UNCHANGED <<srvVars, fetched, page, hasMore, allCampaigns,
                 authCalls, authRetries, callsStarted, missCalls>>

\* refreshToken's backoff sleep ends and its next attempt goes out.
TokenRetry ==
  /\ fpc = "auth"
  /\ now' = IF now >= wakeAt[Me] THEN now ELSE wakeAt[Me]
  /\ AuthRetryCall(Me)
  /\ UNCHANGED <<authCalls, authRetries, callsStarted, missCalls, clientVars>>

\* 2xx: makeRequest returns the parsed page through every nested call, and
\* fetchAllCampaigns pushes its records, takes has_more, increments page and
\* either starts the next page's request or returns.
PageArrives ==
  /\ UNCHANGED faults
  /\ fpc = "fetch"
  /\ \E resp \in Responses : resp.kind = "ok"
  /\ allCampaigns' = PushPage(allCampaigns, PageData(page))
  /\ hasMore' = PageHasMore(page)
  /\ page' = NextPage(page)
  /\ fetched' = Append(fetched, page)
  /\ IF LoopContinues(PageHasMore(page))
       THEN /\ page < MaxPageRequests
            /\ fpc' = "attempt"
            /\ stack' = <<1>>
            /\ req' = NewRequest
       ELSE /\ fpc' = "done"
            /\ stack' = <<>>
            /\ req' = [req EXCEPT !.lastResp = 200, !.prevResp = req.lastResp,
                                  !.result = "ok"]
  /\ UNCHANGED <<srvVars, wake, authVars, callerVars>>

\* 429: read Retry-After and wait(waitTime).
RateLimited(retryAfter) ==
  /\ Fault("rateLimit")
  /\ fpc = "fetch"
  /\ \E resp \in Responses : resp.kind = "rateLimit" /\ resp.retryAfter = retryAfter
  /\ srvProfile = "throttling" => Len(stack) <= MaxThrottled
  /\ fpc' = "wait429"
  /\ wake' = now + WaitTime(retryAfter)
  /\ req' = [req EXCEPT !.n429 = @ + 1, !.lastResp = 429, !.rlAt = now,
                        !.rlSeconds = ParseInt(retryAfter), !.streak = 0]
  /\ UNCHANGED <<srvVars, fetched, page, hasMore, allCampaigns,
                 stack, authVars, callerVars>>

\* The wait is over: return await this.makeRequest(url, options, timeout), a
\* new retryWithBackoff inside the current attempt.
RateLimitWaitDone ==
  /\ UNCHANGED faults
  /\ fpc = "wait429"
  /\ now' = IF now >= wake THEN now ELSE wake
  /\ stack' = Append(stack, 1)
  /\ fpc' = "attempt"
  /\ UNCHANGED <<srvVars, fetched, page, hasMore, allCampaigns,
                 wake, req, accessToken, tokenExpiry, srvLifetime, issued,
                 authCalls, authRetries, cleared, callerVars>>

\* 401: authManager.clearToken(); throw new Error('Token expired')
Unauthorized ==
  /\ Fault("unauthorized")
  /\ fpc = "fetch"
  /\ \E resp \in Responses : resp.kind = "unauthorized"
  /\ cleared' = IF accessToken # NULL THEN cleared \cup {accessToken} ELSE cleared
  /\ ClearTokenFields
  /\ Throw(TokenExpired, now, [req EXCEPT !.n401 = @ + 1, !.lastResp = 401])
  /\ UNCHANGED <<srvVars, fetched, page, hasMore, allCampaigns,
                 srvLifetime, issued, authCalls, authRetries, callerVars>>

\* Another non-2xx status: throw createErrorFromResponse(response)
ErrorStatus(status) ==
  /\ Fault("status")
  /\ fpc = "fetch"
  /\ \E resp \in Responses : resp.kind = "status" /\ resp.status = status
  /\ Throw(HttpError(status), now,
           [req EXCEPT !.lastResp = status,
                       !.nTransient = IF status \in {503, 504} THEN @ + 1 ELSE @,
                       !.streak = IF status \in {503, 504} THEN @ + 1 ELSE @])
  /\ UNCHANGED <<srvVars, fetched, page, hasMore, allCampaigns,
                 accessToken, tokenExpiry, srvLifetime, issued, authCalls,
                 authRetries, cleared, callerVars>>

\* No answer: the abort timer fires after the timeout, AbortError becomes
\* Error('Request timeout').
RequestTimesOut ==
  /\ Fault("hang")
  /\ fpc = "fetch"
  /\ \E resp \in Responses : resp.kind = "hang"
  /\ Throw(RequestTimeout, now + listTimeout,
           [req EXCEPT !.lastResp = 0, !.nTransient = @ + 1,
                       !.nTimeout = @ + 1, !.streak = @ + 1])
  /\ UNCHANGED <<srvVars, fetched, page, hasMore, allCampaigns,
                 accessToken, tokenExpiry, srvLifetime, issued, authCalls,
                 authRetries, cleared, callerVars>>

\* The connection is reset: fetch rejects with code ECONNRESET.
ConnectionReset ==
  /\ Fault("reset")
  /\ fpc = "fetch"
  /\ \E resp \in Responses : resp.kind = "reset"
  /\ Throw(NetError, now, [req EXCEPT !.lastResp = 0])
  /\ UNCHANGED <<srvVars, fetched, page, hasMore, allCampaigns,
                 accessToken, tokenExpiry, srvLifetime, issued, authCalls,
                 authRetries, cleared, callerVars>>

\* await sleep(delay) ends: the for loop's attempt++ and the next fn().
BackoffDone ==
  /\ UNCHANGED faults
  /\ fpc = "backoff"
  /\ now' = IF now >= wake THEN now ELSE wake
  /\ stack' = [stack EXCEPT ![Len(stack)] = @ + 1]
  /\ fpc' = "attempt"
  /\ UNCHANGED <<srvVars, fetched, page, hasMore, allCampaigns,
                 wake, req, accessToken, tokenExpiry, srvLifetime, issued,
                 authCalls, authRetries, cleared, callerVars>>

\* ===================================================================
\* CampaignRepository
\* ===================================================================

CampaignIds == {1, 2}
Versions == {1, 2}
Workers == {1, 2}

\* A campaign as the API delivers it; v tells two contents of one id apart.
Campaign(id, v) ==
  [id |-> id, name |-> v, status |-> v, budget |-> v, impressions |-> v,
   clicks |-> v, conversions |-> v]

\* VALUES ($1, $2, $3, $4, $5, $6, $7, NOW())
NewRow(c, ts) ==
  [id |-> c.id, name |-> c.name, status |-> c.status, budget |-> c.budget,
   impressions |-> c.impressions, clicks |-> c.clicks,
   conversions |-> c.conversions, synced_at |-> ts]

\* DO UPDATE SET with the counters added to the stored ones.
ConflictUpdateAccumulates(row, c, ts) ==
  [row EXCEPT !.name = c.name, !.status = c.status, !.budget = c.budget,
              !.impressions = @ + c.impressions, !.clicks = @ + c.clicks,
              !.conversions = @ + c.conversions, !.synced_at = ts]

\* DO UPDATE SET name = EXCLUDED.name, ..., synced_at = NOW()
ConflictUpdate(row, c, ts) ==
  [row EXCEPT !.name = c.name, !.status = c.status, !.budget = c.budget,
              !.impressions = c.impressions, !.clicks = c.clicks,
              !.conversions = c.conversions, !.synced_at = ts]

RowsOf(id) == {row \in table : row.id = id}

\* A plain INSERT into a table without the key constraint.
InsertOnly(rows, c, ts) == rows \cup {NewRow(c, ts)}

\* INSERT ... ON CONFLICT (id) DO UPDATE on a table whose primary key is id.
Upsert(rows, c, ts) ==
  IF \E row \in rows : row.id = c.id
    THEN {IF row.id = c.id THEN ConflictUpdate(row, c, ts) ELSE row :
            row \in rows}
    ELSE rows \cup {NewRow(c, ts)}

\* The row without the column the claim sets apart.
Content(row) == [f \in DOMAIN row \ {"synced_at"} |-> row[f]]

NoStmt == [campaign |-> Campaign(0, 0), startedAt |-> 0]
NeverSaved == [campaign |-> Campaign(0, 0), times |-> 0, first |-> Campaign(0, 0)]

RepoCore ==
  /\ table = {}
  /\ dbClock = 0
  /\ wpc = [w \in Workers |-> "idle"]
  /\ stmt = [w \in Workers |-> NoStmt]
  /\ saved = [id \in CampaignIds |-> NeverSaved]

\* saveCampaign(campaign): with the mock database it logs and returns; else
\* it sends the statement to the pool. NOW() is the start time of the
\* statement's transaction.
SaveCampaign(w, c) ==
  /\ wpc[w] = "idle"
  /\ IF useMock
       THEN UNCHANGED <<wpc, stmt>>
       ELSE /\ wpc' = [wpc EXCEPT ![w] = "query"]
            /\ stmt' = [stmt EXCEPT ![w] = [campaign |-> c, startedAt |-> dbClock]]
  /\ UNCHANGED <<table, dbClock, repoWorkers, saved>>

\* await pool.query(query, values) resolves: the statement has been applied.
QueryResolves(w) ==
  /\ wpc[w] = "query"
  /\ LET c == stmt[w].campaign
         same == saved[c.id].times > 0 /\ saved[c.id].campaign = c
     IN /\ saved[c.id].times < MaxWrites
        /\ table' = Upsert(table, c, stmt[w].startedAt)
        /\ saved' = [saved EXCEPT ![c.id] =
                       [campaign |-> c,
                        times |-> IF same THEN @.times + 1 ELSE 1,
                        first |-> IF same THEN @.first
                                  ELSE Content(CHOOSE row \in table' : row.id = c.id)]]
  /\ wpc' = [wpc EXCEPT ![w] = "idle"]
  /\ stmt' = [stmt EXCEPT ![w] = NoStmt]
  /\ UNCHANGED <<dbClock, repoWorkers>>

\* pool.query rejects: throw new Error(`Database error: ...`), nothing stored.
QueryRejects(w) ==
  /\ wpc[w] = "query"
  /\ wpc' = [wpc EXCEPT ![w] = "idle"]
  /\ stmt' = [stmt EXCEPT ![w] = NoStmt]
  /\ UNCHANGED <<table, dbClock, repoWorkers, saved>>

\* Time passes on the database server.
DbTick ==
  /\ dbClock < MaxDbClock
  /\ dbClock' = dbClock + 1
  /\ UNCHANGED <<table, repoWorkers, wpc, stmt, saved>>

\* ===================================================================
\* SyncService.syncAllCampaigns
\* ===================================================================

\* The end of the try block throwing when the result holds errors.
FailOnErrors(res) == IF Len(res.errors) > 0 THEN "failed" ELSE "returned"

\* After the dispatch: log the totals, warn if result.errors is not empty,
\* return result.
RunOutcome(res) == "returned"

\* The run starts: fetchAllCampaigns is under way; campaigns is what it will
\* return, opFails what will happen to each campaign's operation.
RunCore ==
  /\ numCampaigns \in 0..MaxCampaigns
  /\ opFails \in [1..numCampaigns -> {"none", "sync", "save", "auth"}]
  /\ useMock \in BOOLEAN
  /\ batchIndex = 0
  /\ dpc = "loop"
  /\ op = [c \in 1..numCampaigns |-> "pending"]
  /\ results = [totalCampaigns |-> numCampaigns, successCount |-> 0,
                failureCount |-> 0, errors |-> <<>>]
  /\ rpc = "fetching"
  /\ runCause = "none"

\* const campaigns = await adPlatformClient.fetchAllCampaigns() resolves and
\* syncCampaignsWithConcurrency(campaigns) is called.
FetchAllReturns ==
  /\ rpc = "fetching"
  /\ rpc' = "dispatching"
  /\ UNCHANGED <<runCause, dispVars>>

\* fetchAllCampaigns rejects, because getAccessToken failed ("auth") or a page
\* request failed ("pagination"): catch (error) { throw error }.
FetchAllThrows(cause) ==
  /\ rpc = "fetching"
  /\ rpc' = "failed"
  /\ runCause' = cause
  /\ UNCHANGED dispVars

\* A step of syncCampaignsWithConcurrency inside the run.
Dispatching(step) ==
  /\ rpc = "dispatching"
  /\ step
  /\ UNCHANGED runVars

\* syncCampaignsWithConcurrency has returned: the rest of the try block.
RunEnds ==
  /\ rpc = "dispatching"
  /\ dpc = "returned"
  /\ rpc' = RunOutcome(results)
  /\ UNCHANGED <<runCause, dispVars>>

\* ===================================================================
\* The process: main, the signal handlers and the connection pool
\* ===================================================================

Running == -1

\* if (!pool) in getPool, always taken.
PoolAlwaysMissing == TRUE

\* if (!pool) in getPool
PoolMissing == pool = 0

\* getPool(): creates the Pool when there is none, returns pool.
GetPool ==
  /\ IF PoolMissing
       THEN /\ pool' = poolsCreated + 1
            /\ poolsCreated' = poolsCreated + 1
            /\ poolState' = Append(poolState, "open")
            /\ endCalls' = Append(endCalls, 0)
       ELSE UNCHANGED <<pool, poolsCreated, poolState, endCalls>>
  /\ handedOut' = handedOut \cup {pool'}

\* closePool() up to its await: nothing when pool is null, else pool.end() is
\* called. The first end() on a Pool is pending until the Pool's clients are
\* released; an end() on a Pool that is ending or ended is rejected.
ClosePoolCalled ==
  IF pool = 0 THEN "skipped"
  ELSE IF poolState[pool] = "open" THEN "closing"
  ELSE "rejected"

\* The effect of the pool.end() call of closePool() on the Pool.
EndCall ==
  IF pool = 0 THEN UNCHANGED <<poolState, endCalls>>
  ELSE /\ endCalls' = [endCalls EXCEPT ![pool] = @ + 1]
       /\ poolState' = [poolState EXCEPT ![pool] =
                          IF @ = "open" THEN "ending" ELSE @]

\* The queries sent to the Pool and not answered yet.
ActiveQueries ==
  {c \in 1..numCampaigns : op[c] = "save" /\ ~useMock /\ c \notin refused}

ProcCore ==
  /\ pool = 0
  /\ poolsCreated = 0
  /\ poolState = <<>>
  /\ endCalls = <<>>
  /\ handedOut = {}
  /\ refused = {}
  /\ mpc = "running"
  /\ hpc = <<>>
  /\ exitCode = Running

\* A step of syncAllCampaigns that touches neither the pool nor the process.
RunStep(step) ==
  /\ exitCode = Running
  /\ step
  /\ UNCHANGED procVars

\* syncCampaign resolves and saveCampaign runs to its await: against a real
\* database getPool() and pool.query(), which a Pool that is ending refuses.
SyncResolvesAndSaves(c) ==
  /\ exitCode = Running
  /\ Dispatching(SyncResolves(c))
  /\ IF useMock
       THEN UNCHANGED <<pool, poolsCreated, poolState, endCalls, handedOut,
                        refused>>
       ELSE /\ GetPool
            /\ refused' = IF poolState'[pool'] # "open"
                            THEN refused \cup {c} ELSE refused
  /\ UNCHANGED <<mpc, hpc, exitCode>>

\* pool.query resolves.
QuerySucceeds(c) ==
  /\ exitCode = Running
  /\ c \notin refused
  /\ Dispatching(SaveResolves(c))
  /\ UNCHANGED procVars

\* pool.query rejects because of the statement or the database.
QueryFails(c) ==
  /\ exitCode = Running
  /\ c \notin refused
  /\ Dispatching(SaveThrows(c))
  /\ UNCHANGED procVars

\* pool.query rejects because end() was called on the Pool: saveCampaign
\* throws 'Database error' and the catch block runs.
QueryRefused(c) ==
  /\ exitCode = Running
  /\ rpc = "dispatching"
  /\ op[c] = "save"
  /\ c \in refused
  /\ results' = OnFailure(c)
  /\ op' = [op EXCEPT ![c] = "settled"]
  /\ UNCHANGED <<numCampaigns, opFails, useMock, batchIndex, dpc, runVars,
                 procVars>>

\* main() resumes after await syncService.syncAllCampaigns(): process.exit(1)
\* when it threw or result.failureCount > 0 (the process ends there, before
\* the finally block); otherwise the finally block calls closePool().
MainResumes ==
  /\ exitCode = Running
  /\ mpc = "running"
  /\ rpc \in {"returned", "failed"}
  /\ IF rpc = "failed" \/ results.failureCount > 0
       THEN /\ exitCode' = 1
            /\ UNCHANGED <<mpc, poolState, endCalls>>
       ELSE /\ mpc' = IF ClosePoolCalled = "skipped" THEN "returned"
                      ELSE ClosePoolCalled
            /\ EndCall
            /\ UNCHANGED exitCode
  /\ UNCHANGED <<pool, poolsCreated, handedOut, refused, hpc, dispVars,
                 runVars>>

\* SIGINT or SIGTERM arrives and its handler runs: closePool(), and
\* process.exit(0) at once when there was no pool.
Signal ==
  /\ exitCode = Running
  /\ Len(hpc) < MaxSignals
  /\ hpc' = Append(hpc, ClosePoolCalled)
  /\ EndCall
  /\ exitCode' = IF ClosePoolCalled = "skipped" THEN 0 ELSE Running
  /\ UNCHANGED <<pool, poolsCreated, handedOut, refused, mpc, dispVars,
                 runVars>>

\* The pending pool.end() resolves once no query is active: closePool sets
\* pool = null and returns; a handler then calls process.exit(0), main returns.
PoolEndResolves ==
  /\ exitCode = Running
  /\ pool # 0
  /\ poolState[pool] = "ending"
  /\ ActiveQueries = {}
  /\ poolState' = [poolState EXCEPT ![pool] = "ended"]
  /\ pool' = 0
  /\ IF mpc = "closing"
       THEN mpc' = "returned" /\ UNCHANGED <<hpc, exitCode>>
       ELSE /\ hpc' = [i \in 1..Len(hpc) |->
                         IF hpc[i] = "closing" THEN "exited" ELSE hpc[i]]
            /\ exitCode' = 0
            /\ UNCHANGED mpc
  /\ UNCHANGED <<poolsCreated, endCalls, handedOut, refused, dispVars, runVars>>

\* The rejection of a second pool.end() leaves main or a handler as an
\* unhandled rejection; the runtime may end the process with status 1.
RejectionCrashes ==
  /\ exitCode = Running
  /\ "rejected" \in {mpc} \cup Range(hpc)
  /\ exitCode' = 1
  /\ UNCHANGED <<pool, poolsCreated, poolState, endCalls, handedOut, refused,
                 mpc, hpc, dispVars, runVars>>

\* main has finished and nothing is pending: the process ends by itself.
ProcessDrains ==
  /\ exitCode = Running
  /\ mpc \in {"returned", "rejected"}
  /\ \A i \in 1..Len(hpc) : hpc[i] # "closing"
  /\ IF pool = 0 THEN TRUE ELSE poolState[pool] # "ending"
  /\ exitCode' = 0
  /\ UNCHANGED <<pool, poolsCreated, poolState, endCalls, handedOut, refused,
                 mpc, hpc, dispVars, runVars>>

\* ===================================================================
\* Page-by-page sync loops: CampaignSyncService.syncAll
\* (services/campaignSyncService.ts) and syncAllCampaigns
\* (services/syncService.ts, second part)
\* ===================================================================

PAGE_SIZE == 10

PagerVariants == {"syncAll", "syncAllCampaigns"}

\* What the remote holds for page p: data.length and pagination.has_more.
\* Beyond the pages it knows the remote answers an empty last page.
RemotePage(p) ==
  IF p \in 1..Len(pager.srv) THEN pager.srv[p]
  ELSE [count |-> 0, has_more |-> FALSE]

\* if (campaigns.length === 0) break
\* if (!data.data || data.data.length === 0) break
EmptyPageBreaks(p) == RemotePage(p).count = 0

PagerCore ==
  pager \in [variant : PagerVariants,
             srv : UNION {[1..n -> [count : {0, 1, PAGE_SIZE},
                                    has_more : BOOLEAN]] : n \in 1..MaxLoopPages},
             page : {1}, hasMore : {TRUE}, pc : {"fetch"}, end : {"none"},
             synced : {<<>>}]

PagerIdle ==
  pager = [variant |-> "syncAll", srv |-> <<>>, page |-> 1, hasMore |-> FALSE,
           pc |-> "ended", end |-> "none", synced |-> <<>>]

\* The page request is answered with a page: break when it is empty, else
\* the page's campaigns are synced.
PageAnswered ==
  /\ pager.pc = "fetch"
  /\ pager' = IF EmptyPageBreaks(pager.page)
                THEN [pager EXCEPT !.pc = "ended", !.end = "emptyPage"]
                ELSE [pager EXCEPT !.pc = "syncing"]
  /\ UNCHANGED <<backoff, camp>>

\* The page request fails for good: syncAll's catch block breaks out of the
\* loop, syncAllCampaigns rejects.
PageRequestFails ==
  /\ pager.pc = "fetch"
  /\ pager' = IF pager.variant = "syncAll"
                THEN [pager EXCEPT !.pc = "ended", !.end = "error"]
                ELSE [pager EXCEPT !.pc = "threw", !.end = "error"]
  /\ UNCHANGED <<backoff, camp>>

\* The syncs of the page have settled: hasMore = data.pagination.has_more;
\* page++; and the while (hasMore) test.
PageSynced ==
  /\ pager.pc = "syncing"
  /\ LET more == RemotePage(pager.page).has_more
     IN pager' = [pager EXCEPT !.synced = Append(@, pager.page),
                               !.hasMore = more,
                               !.page = @ + 1,
                               !.pc = IF more THEN "fetch" ELSE "ended",
                               !.end = IF more THEN "none" ELSE "flag"]
  /\ UNCHANGED <<backoff, camp>>

\* ===================================================================
\* Backoff delays: retryWithBackoff (utils/retry) and calculateBackoffDelay
\* (api-client.ts)
\* ===================================================================

\* DEFAULT_RETRY_CONFIG
initialDelayMs == 1000
maxDelayMs == 30000

BackoffFns == {"retryWithBackoff", "calculateBackoffDelay"}

\* The values of Math.random(), in tenths.
RandomChoices == {0, 5, 9}

\* calculateBackoffDelay(attempt, initialDelay, maxDelay, retryAfter) with
\* Math.random() = r / 10; retryAfter is 0 when the argument is left out.
CalculateBackoffDelay(att, initialDelay, maxDelay, retryAfter, r) ==
  IF retryAfter # 0 THEN Min(retryAfter * 1000, maxDelay)
  ELSE LET exponentialDelay == initialDelay * Pow2(att)
           jitter == (r * 3 * exponentialDelay) \div 100
       IN Min(exponentialDelay + jitter, maxDelay)

\* A retry loop whose attempt has just failed with a retryable error.
\* retryWithBackoff counts its attempts from 1, ApiClient.request from 0.
BackoffCore ==
  /\ backoff \in [fn : BackoffFns, attempt : 0..MaxBackoffAttempt,
                  rnd : RandomChoices, retryAfter : {0, 2}, delay : {0},
                  pc : {"failed"}]
  /\ backoff.fn = "retryWithBackoff" =>
       backoff.attempt >= 1 /\ backoff.retryAfter = 0

BackoffIdle ==
  backoff = [fn |-> "retryWithBackoff", attempt |-> 1, rnd |-> 0,
             retryAfter |-> 0, delay |-> 0, pc |-> "idle"]

\* retryWithBackoff: const delay = baseDelay * Math.pow(2, attempt - 1);
\* await sleep(delay)
RetrySleeps ==
  /\ backoff.fn = "retryWithBackoff"
  /\ backoff.pc = "failed"
  /\ backoff' = [backoff EXCEPT !.delay = BackoffDelay(backoff.attempt),
                                !.pc = "sleeping"]
  /\ UNCHANGED <<pager, camp>>

\* ApiClient.request: const delay = calculateBackoffDelay(...); await
\* sleep(delay)
RequestSleeps ==
  /\ backoff.fn = "calculateBackoffDelay"
  /\ backoff.pc = "failed"
  /\ backoff' = [backoff EXCEPT
                   !.delay = CalculateBackoffDelay(backoff.attempt,
                               initialDelayMs, maxDelayMs, backoff.retryAfter,
                               backoff.rnd),
                   !.pc = "sleeping"]
  /\ UNCHANGED <<pager, camp>>

\* The sleep is over and the next attempt fails as well.
NextAttemptFails ==
  /\ backoff.pc = "sleeping"
  /\ backoff.attempt < MaxBackoffAttempt
  /\ \E r \in RandomChoices :
       backoff' = [backoff EXCEPT !.attempt = @ + 1, !.rnd = r, !.delay = 0,
                                  !.pc = "failed"]
  /\ UNCHANGED <<pager, camp>>

\* ===================================================================
\* syncCampaign (repositories/campaignRepository.ts) and processCampaign
\* ===================================================================

maxRetries == 3
baseBackoff == 1000

CampFns == {"syncCampaign", "processCampaign"}

\* The statuses the sync endpoint may answer with.
SyncStatuses == {200, 404, 429, 500, 503}

CampCore ==
  camp \in [fn : CampFns, pc : {"fetch"}, attempt : {0}, status : {0},
            n429 : {0}, delay : {0}, savedOn : {{}}, ret : {"none"}]

CampIdle ==
  camp = [fn |-> "syncCampaign", pc |-> "returned", attempt |-> 0,
          status |-> 0, n429 |-> 0, delay |-> 0, savedOn |-> {},
          ret |-> "none"]

\* catch (err): attempt++, sleep baseBackoff * attempt.
CampCatch(c) ==
  [c EXCEPT !.attempt = @ + 1, !.delay = baseBackoff * (c.attempt + 1),
            !.pc = "backoff"]

\* The sync endpoint answers: 429 waits and repeats the request without
\* counting an attempt; after that test nothing else is asked of the
\* response, and saveCampaignToDB is called whatever the status.
SyncAnswered(status) ==
  /\ camp.pc = "fetch"
  /\ IF status = 429
       THEN /\ camp.n429 < MaxSync429
            /\ camp' = [camp EXCEPT !.status = status, !.n429 = @ + 1,
                                    !.pc = "wait"]
       ELSE camp' = [camp EXCEPT !.status = status, !.pc = "save",
                                 !.savedOn = @ \cup {status}]
  /\ UNCHANGED <<pager, backoff>>

\* fetchWithTimeout throws (timeout or network error).
SyncRequestThrows ==
  /\ camp.pc = "fetch"
  /\ camp' = CampCatch([camp EXCEPT !.status = 0])
  /\ UNCHANGED <<pager, backoff>>

\* The Retry-After wait is over: continue.
SyncWaitDone ==
  /\ camp.pc = "wait"
  /\ camp' = [camp EXCEPT !.pc = "fetch"]
  /\ UNCHANGED <<pager, backoff>>

\* saveCampaignToDB resolves: return true.
CampSaved ==
  /\ camp.pc = "save"
  /\ camp' = [camp EXCEPT !.pc = "returned", !.ret = "true"]
  /\ UNCHANGED <<pager, backoff>>

\* saveCampaignToDB rejects: the catch block.
CampSaveThrows ==
  /\ camp.pc = "save"
  /\ camp' = CampCatch(camp)
  /\ UNCHANGED <<pager, backoff>>

\* The backoff sleep is over: while (attempt < maxRetries), else return false.
CampBackoffDone ==
  /\ camp.pc = "backoff"
  /\ camp' = IF camp.attempt < maxRetries
               THEN [camp EXCEPT !.pc = "fetch"]
               ELSE [camp EXCEPT !.pc = "returned", !.ret = "false"]
  /\ UNCHANGED <<pager, backoff>>

\* ===================================================================
\* fetchWithRetry and syncCampaignWithRetry (syncCampaigns.ts)
\* ===================================================================

RetryFns == {"fetchWithRetry", "syncCampaignWithRetry"}

\* The statuses the remote may answer with.
RetryStatuses == {200, 404, 429, 500}

RetrierCore ==
  retrier \in [fn : RetryFns, retries : 1..MaxRetries, attempt : {1},
               pc : {"request"}, statuses : {<<>>}, res : {0},
               caller : {"waiting"}]

RetrierIdle == retrier = [pc |-> "idle"]

\* An error reaches the catch block of the loop body:
\* if (attempt === retries) throw err; else sleep before the next attempt.
RetryCatch(r) ==
  IF r.attempt = r.retries
    THEN [r EXCEPT !.pc = "threw",
                   !.caller = IF r.fn = "syncCampaignWithRetry"
                                THEN "logged" ELSE r.caller]
    ELSE [r EXCEPT !.pc = "sleep"]

\* The status the loop body throws on: fetchWithRetry on res.status >= 500,
\* syncCampaignWithRetry on !res.ok.
RetryThrowsOn(fn, st) ==
  IF fn = "fetchWithRetry" THEN st >= 500 ELSE st \notin 200..299

\* The for statement's update and test after the loop body has ended with
\* continue or after the catch block's sleep: attempt++, attempt <= retries.
\* When the test fails the statement after the loop runs: fetchWithRetry
\* throws Error("Unreachable"), syncCampaignWithRetry ends and so returns.
RetryLoopNext(r) ==
  IF r.attempt + 1 <= r.retries
    THEN [r EXCEPT !.attempt = r.attempt + 1, !.pc = "request"]
    ELSE IF r.fn = "fetchWithRetry"
           THEN [r EXCEPT !.attempt = r.attempt + 1, !.pc = "unreachable"]
           ELSE [r EXCEPT !.attempt = r.attempt + 1, !.pc = "returned"]

\* The request of the current attempt is answered with status st.
RetryAnswered(st) ==
  /\ retrier.pc = "request"
  /\ LET r == [retrier EXCEPT !.statuses = Append(retrier.statuses, st)] IN
       retrier' = IF st = 429 THEN [r EXCEPT !.pc = "wait"]
                  ELSE IF RetryThrowsOn(r.fn, st) THEN RetryCatch(r)
                  ELSE [r EXCEPT !.pc = "returned", !.res = st]
  /\ UNCHANGED <<lister, cpool, rwc, limiter, mock>>

\* fetch / fetchWithTimeout rejects (network error, timeout).
RetryRequestThrows ==
  /\ retrier.pc = "request"
  /\ retrier' = RetryCatch([retrier EXCEPT
                              !.statuses = Append(retrier.statuses, 0)])
  /\ UNCHANGED <<lister, cpool, rwc, limiter, mock>>

\* The Retry-After wait after a 429 is over: continue.
RetryWaitDone ==
  /\ retrier.pc = "wait"
  /\ retrier' = RetryLoopNext(retrier)
  /\ UNCHANGED <<lister, cpool, rwc, limiter, mock>>

\* The backoff sleep of the catch block is over.
RetrySleepDone ==
  /\ retrier.pc = "sleep"
  /\ retrier' = RetryLoopNext(retrier)
  /\ UNCHANGED <<lister, cpool, rwc, limiter, mock>>

\* The caller of syncCampaignWithRetry goes on after the call has returned:
\* await saveCampaignToDB(campaign); successCount++.
RetryCallerSaves ==
  /\ retrier.fn = "syncCampaignWithRetry"
  /\ retrier.pc = "returned"
  /\ retrier.caller = "waiting"
  /\ retrier' = [retrier EXCEPT !.caller = "counted"]
  /\ UNCHANGED <<lister, cpool, rwc, limiter, mock>>

\* ===================================================================
\* The helpers at rest
\* ===================================================================

ListerIdle == lister = [pc |-> "idle"]
CPoolIdle == cpool = [pc |-> "idle"]
RwcIdle == rwc = [pc |-> "idle"]
LimiterIdle == limiter = [pc |-> "idle"]
MockIdle == mock = [pc |-> "idle"]

ExtIdle ==
  /\ RetrierIdle /\ ListerIdle /\ CPoolIdle /\ RwcIdle /\ LimiterIdle
  /\ MockIdle

\* ===================================================================
\* The paginated fetch loops of the other drivers: fetchAllCampaigns of
\* api/client.ts over exponentialBackoff (utils/retry.ts, part_003),
\* fetchAllCampaigns of repositories/campaignRepository.ts (and part_019),
\* and the page loop of the monolithic syncAllCampaigns (part_015)
\* ===================================================================

\* The ceiling on 429 retries of one logical request.
MAX_RATE_LIMIT_RETRIES == 10

\* exponentialBackoff(fn, { retries = 3 })
backoffRetries == 3

\* while (attempts < 5 && !success)
maxPageAttempts == 5

ListerFns == {"apiClient", "repository", "monolith"}

\* The statuses the list endpoint may answer with.
ListStatuses == {200, 404, 429, 503}

\* page = 1, hasMore = true, the counters at zero.  tries and n429 are
\* not variables of the code: they count the requests made for the current
\* page and the 429 answers among them, up to MaxPageTries.
ListerCore ==
  lister \in [fn : ListerFns, srvPages : 1..MaxListPages, page : {1},
              hasMore : {TRUE}, pc : {"fetch"}, attempt : {0},
              rateLimitRetries : {0}, tries : {0}, n429 : {0},
              end : {"none"}]

\* One more request for the current page has been made; it was answered
\* with st (0 when it was not answered).
ListCounted(l, st) ==
  [l EXCEPT !.tries = Min(l.tries + 1, MaxPageTries),
            !.n429 = IF st = 429 THEN Min(l.n429 + 1, MaxPageTries)
                     ELSE l.n429]

\* A page has been fetched: hasMore = data.pagination.has_more; page++.
\* api/client.ts resets rateLimitRetries and calls exponentialBackoff anew
\* for the next page; part_015 starts the next page with attempts = 0.
ListPageDone(l) ==
  [l EXCEPT !.hasMore = l.page < l.srvPages, !.page = l.page + 1,
            !.pc = IF l.page < l.srvPages THEN "fetch" ELSE "returned",
            !.attempt = 0, !.rateLimitRetries = 0, !.tries = 0, !.n429 = 0]

\* The catch block of fetchAllCampaigns in api/client.ts.
ClientCatch(l, err) ==
  IF err = "rateLimit"
    THEN IF l.rateLimitRetries + 1 > MAX_RATE_LIMIT_RETRIES
           THEN [l EXCEPT !.rateLimitRetries = l.rateLimitRetries + 1,
                          !.pc = "threw", !.end = "aborted"]
           ELSE [l EXCEPT !.rateLimitRetries = l.rateLimitRetries + 1,
                          !.attempt = 0, !.pc = "fetch"]
    ELSE [l EXCEPT !.pc = "threw", !.end = "error"]

\* The catch block of exponentialBackoff: a rateLimit error makes the loop
\* continue, so fn is called again; any other error consumes an attempt and
\* is passed to the caller once attempt > retries.
ExponentialBackoffCatch(l, err) ==
  IF err = "rateLimit" THEN [l EXCEPT !.pc = "fetch"]
  ELSE IF l.attempt + 1 > backoffRetries
         THEN ClientCatch([l EXCEPT !.attempt = l.attempt + 1], err)
         ELSE [l EXCEPT !.attempt = l.attempt + 1, !.pc = "sleep"]

\* The catch block of the page loop of part_015.
MonolithCatch(l) ==
  IF l.attempt + 1 >= maxPageAttempts
    THEN [l EXCEPT !.attempt = l.attempt + 1, !.pc = "threw", !.end = "error"]
    ELSE [l EXCEPT !.attempt = l.attempt + 1, !.pc = "sleep"]

\* The loop tests of part_015 with success still false: the inner loop goes
\* on while attempts < 5; when it ends, while (hasMore) is still true and the
\* next round starts with attempts = 0 for the same page.
MonolithLoop(l) ==
  IF l.attempt < maxPageAttempts THEN [l EXCEPT !.pc = "fetch"]
  ELSE [l EXCEPT !.attempt = 0, !.pc = "fetch"]

\* The request for the current page is answered with status st.
ListAnswered(st) ==
  /\ lister.pc = "fetch"
  /\ LET l == ListCounted(lister, st) IN
       lister' =
         IF st = 429 THEN [l EXCEPT !.pc = "wait"]
         ELSE IF st \in 200..299 THEN ListPageDone(l)
         ELSE IF l.fn = "apiClient" THEN ExponentialBackoffCatch(l, "http")
         ELSE IF l.fn = "repository" THEN [l EXCEPT !.pc = "sleep"]
         ELSE IF st = 503 THEN [l EXCEPT !.pc = "wait"]
         ELSE MonolithCatch(l)
  /\ UNCHANGED <<retrier, cpool, rwc, limiter, mock>>

\* fetchWithTimeout rejects (network error, timeout).
ListRequestThrows ==
  /\ lister.pc = "fetch"
  /\ LET l == ListCounted(lister, 0) IN
       lister' =
         IF l.fn = "apiClient" THEN ExponentialBackoffCatch(l, "error")
         ELSE IF l.fn = "repository" THEN [l EXCEPT !.pc = "sleep"]
         ELSE MonolithCatch(l)
  /\ UNCHANGED <<retrier, cpool, rwc, limiter, mock>>

\* The wait after a 429 (in part_015 also after a 503) is over.  In
\* api/client.ts fn throws { rateLimit: true } inside exponentialBackoff; in
\* the repository the loop continues; part_015 counts the attempt and
\* continues.
ListWaitDone ==
  /\ lister.pc = "wait"
  /\ lister' =
       IF lister.fn = "apiClient"
         THEN ExponentialBackoffCatch(lister, "rateLimit")
       ELSE IF lister.fn = "repository" THEN [lister EXCEPT !.pc = "fetch"]
       ELSE MonolithLoop([lister EXCEPT !.attempt = lister.attempt + 1])
  /\ UNCHANGED <<retrier, cpool, rwc, limiter, mock>>

\* The sleep of a catch block is over: the loop goes round.
ListSleepDone ==
  /\ lister.pc = "sleep"
  /\ lister' = IF lister.fn = "monolith" THEN MonolithLoop(lister)
               ELSE [lister EXCEPT !.pc = "fetch"]
  /\ UNCHANGED <<retrier, cpool, rwc, limiter, mock>>

\* ===================================================================
\* createConcurrencyPool (utils/concurrency.ts)
\* ===================================================================

\* queue.splice(queue.indexOf(job), 1)
QueueRemove(q, job) == SelectSeq(q, LAMBDA j : j # job)

\* A pool with an empty queue and the run calls its user is going to make.
\* st[i] is the position of run call i: "notCalled", "waiting" (at await
\* Promise.race(queue)), "woken" (the race has settled, the continuation is
\* queued), "running" (fn started, job pending), "settled", "rejected" (the
\* run call rejected without starting fn).
CPoolCore ==
  \E lim \in 1..MaxPoolLimit, n \in 1..MaxRunCalls :
    cpool = [limit |-> lim, n |-> n, called |-> 0, queue |-> <<>>,
             st |-> [i \in 1..n |-> "notCalled"],
             race |-> [i \in 1..n |-> {}],
             how |-> [i \in 1..n |-> "none"],
             sharedWake |-> FALSE, rewaited |-> FALSE, pc |-> "open"]

\* The functions started and not yet settled.
Unsettled(c) == {i \in 1..c.n : c.st[i] = "running"}

\* while (queue.length >= limit), as evaluated when run is entered.
MustWait(c) == Len(c.queue) >= c.limit

\* An if in place of the while: a run call that resumes starts its function
\* without looking at the queue again.
WakeStartsAtOnce(c) == FALSE

\* The same test, evaluated again by a run call that resumes after its
\* await Promise.race(queue).
MustWaitAgain(c) == Len(c.queue) >= c.limit

\* const job = fn(); queue.push(job); job.finally(...); return job
StartJob(c, i) ==
  [c EXCEPT !.st[i] = "running", !.queue = Append(c.queue, i)]

\* await Promise.race(queue): the race is over the jobs queued right now.
AwaitRace(c, i) ==
  [c EXCEPT !.st[i] = "waiting", !.race[i] = Range(c.queue)]

\* The user calls pool.run(fn): the call runs up to its first await.
RunCalled ==
  /\ cpool.pc # "idle"
  /\ cpool.called < cpool.n
  /\ LET i == cpool.called + 1
         c == [cpool EXCEPT !.called = i] IN
       cpool' = IF MustWait(c) THEN AwaitRace(c, i) ELSE StartJob(c, i)
  /\ UNCHANGED <<retrier, lister, rwc, limiter, mock>>

\* Job j settles.  Its reactions run in the order they were registered: the
\* finally callback of run first, which takes the job out of the queue, then
\* the races that contain the job, which settle as the job did.
JobSettles(j, outcome) ==
  /\ cpool.pc # "idle"
  /\ j \in Unsettled(cpool)
  /\ LET raced == {i \in 1..cpool.n :
                     cpool.st[i] = "waiting" /\ j \in cpool.race[i]} IN
       cpool' = [cpool EXCEPT
                   !.queue = QueueRemove(cpool.queue, j),
                   !.st = [i \in 1..cpool.n |->
                             IF i = j THEN "settled"
                             ELSE IF i \in raced THEN "woken"
                             ELSE cpool.st[i]],
                   !.how = [i \in 1..cpool.n |->
                              IF i \in raced THEN outcome ELSE cpool.how[i]],
                   !.sharedWake = cpool.sharedWake \/ Cardinality(raced) > 1]
  /\ UNCHANGED <<retrier, lister, rwc, limiter, mock>>

\* A run call resumes after its race: a rejected race makes the await throw
\* and the run call reject; otherwise the while test is evaluated again.
WaiterResumes(i) ==
  /\ cpool.pc # "idle"
  /\ i \in 1..cpool.n
  /\ cpool.st[i] = "woken"
  /\ cpool' = IF cpool.how[i] = "rejected"
                THEN [cpool EXCEPT !.st[i] = "rejected"]
              ELSE IF MustWaitAgain(cpool)
                THEN [AwaitRace(cpool, i) EXCEPT !.rewaited = TRUE]
              ELSE StartJob(cpool, i)
  /\ UNCHANGED <<retrier, lister, rwc, limiter, mock>>

\* ===================================================================
\* runWithConcurrency (utils/concurrency.ts)
\* ===================================================================

\* items is an array of values that JavaScript takes for true (TRUE: an
\* object, a non-empty string, a non-zero number) or for false (FALSE: 0, '',
\* null, undefined, NaN, false); queue = [...items], of which next is the
\* index of the first element not yet shifted.  Worker w is "ready" (about to
\* evaluate its while test), "busy" (awaiting handler(item)), "done" or
\* "rejected".
RwcCore ==
  \E n \in 0..MaxItems, lim \in 1..MaxWorkers :
    \E items \in [1..n -> BOOLEAN] :
      rwc = [items |-> items, limit |-> lim, next |-> 1,
             worker |-> [w \in 1..lim |-> "ready"],
             item |-> [w \in 1..lim |-> 0],
             invoked |-> [i \in 1..n |-> 0],
             finished |-> [i \in 1..n |-> FALSE],
             settled |-> "pending", pc |-> "running"]

\* await Promise.all(workers): rejected as soon as one worker has rejected,
\* fulfilled once every worker is done; settled once.
PromiseAll(r) ==
  IF r.settled # "pending" THEN r
  ELSE IF \E w \in 1..r.limit : r.worker[w] = "rejected"
    THEN [r EXCEPT !.settled = "rejected"]
  ELSE IF \A w \in 1..r.limit : r.worker[w] = "done"
    THEN [r EXCEPT !.settled = "fulfilled"]
  ELSE r

\* A worker evaluates while (queue.length): with the queue empty it is done;
\* else item = queue.shift(); if (!item) return; else handler(item) is
\* invoked and awaited.
WorkerTakes(w) ==
  /\ rwc.pc # "idle"
  /\ w \in 1..rwc.limit
  /\ rwc.worker[w] = "ready"
  /\ rwc' = PromiseAll(
       IF rwc.next > Len(rwc.items) THEN [rwc EXCEPT !.worker[w] = "done"]
       ELSE IF ~rwc.items[rwc.next]
         THEN [rwc EXCEPT !.next = rwc.next + 1, !.worker[w] = "done"]
       ELSE [rwc EXCEPT !.next = rwc.next + 1, !.worker[w] = "busy",
                        !.item[w] = rwc.next,
                        !.invoked[rwc.next] = rwc.invoked[rwc.next] + 1])
  /\ UNCHANGED <<retrier, lister, cpool, limiter, mock>>

\* The handler invocation a worker awaits settles: fulfilled, the worker goes
\* round its loop; rejected, the await throws and the worker rejects.
HandlerSettles(w, outcome) ==
  /\ rwc.pc # "idle"
  /\ w \in 1..rwc.limit
  /\ rwc.worker[w] = "busy"
  /\ rwc' = PromiseAll(
       [rwc EXCEPT !.finished[rwc.item[w]] = TRUE,
                   !.worker[w] = IF outcome = "fulfilled" THEN "ready"
                                 ELSE "rejected"])
  /\ UNCHANGED <<retrier, lister, cpool, limiter, mock>>

\* ===================================================================
\* The client-side rate limiter of httpClient.ts (part_022):
\* enforceClientRateLimit under fetchWithTimeoutAndRetry
\* ===================================================================

MAX_REQUESTS_PER_MINUTE == 10
WINDOW_MS == 60000

\* The time a request takes to be answered, and the time a slow one takes.
LatencyMs == 1
SlowLatencyMs == 30000

\* now is Date.now(); requestTimestamps is the module's array; sent holds the
\* times at which the latest requests left the client (the last
\* MAX_REQUESTS_PER_MINUTE + 1 of them).  Caller c is "enforce" (at the top of
\* the loop of fetchWithTimeoutAndRetry), "sleeping" (inside the sleep
\* enforceClientRateLimit returned) or "inflight" (awaiting fetchWithTimeout).
LimiterCore ==
  \E n \in 1..MaxLimiterCallers :
    limiter = [now |-> 0, requestTimestamps |-> <<>>, sent |-> <<>>,
               calls |-> 0, slow |-> 0,
               cst |-> [c \in 1..n |-> "enforce"],
               wakeAt |-> [c \in 1..n |-> 0], pc |-> "running"]

\* while (requestTimestamps.length && now - requestTimestamps[0] > WINDOW_MS)
\*   requestTimestamps.shift()
RECURSIVE DropExpired(_, _)
DropExpired(ts, t) ==
  IF Len(ts) > 0 /\ t - ts[1] > WINDOW_MS THEN DropExpired(Tail(ts), t)
  ELSE ts

\* A request leaves the client at time t.
RequestLeaves(l, t) ==
  [l EXCEPT !.calls = l.calls + 1,
            !.sent = IF Len(l.sent) > MAX_REQUESTS_PER_MINUTE
                       THEN Append(Tail(l.sent), t) ELSE Append(l.sent, t)]

\* await enforceClientRateLimit(), then fetchWithTimeout: with the window
\* full the caller sleeps WINDOW_MS - (now - requestTimestamps[0]); else the
\* time is recorded and the request leaves.
EnforceClientRateLimit(c) ==
  /\ limiter.pc # "idle"
  /\ c \in DOMAIN limiter.cst
  /\ limiter.cst[c] = "enforce"
  /\ limiter.calls < MaxLimiterCalls
  /\ LET t == limiter.now
         ts == DropExpired(limiter.requestTimestamps, t) IN
       limiter' =
         IF Len(ts) >= MAX_REQUESTS_PER_MINUTE
           THEN [limiter EXCEPT !.requestTimestamps = ts,
                                !.cst[c] = "sleeping",
                                !.wakeAt[c] = t + (WINDOW_MS - (t - ts[1]))]
           ELSE RequestLeaves([limiter EXCEPT
                                 !.requestTimestamps = Append(ts, t),
                                 !.cst[c] = "inflight"], t)
  /\ UNCHANGED <<retrier, lister, cpool, rwc, mock>>

\* No sleeping caller is due before time t.
NoneDueBefore(l, t) ==
  \A c \in DOMAIN l.cst : l.cst[c] = "sleeping" => l.wakeAt[c] >= t

\* The sleep returned by enforceClientRateLimit is over: the caller goes on
\* to fetchWithTimeout and the request leaves.
LimiterSleepOver(c) ==
  /\ limiter.pc # "idle"
  /\ c \in DOMAIN limiter.cst
  /\ limiter.cst[c] = "sleeping"
  /\ NoneDueBefore(limiter, limiter.wakeAt[c])
  /\ limiter' = RequestLeaves([limiter EXCEPT !.now = limiter.wakeAt[c],
                                              !.cst[c] = "inflight"],
                              limiter.wakeAt[c])
  /\ UNCHANGED <<retrier, lister, cpool, rwc, mock>>

\* The request is answered or fails after ms milliseconds; the caller's next
\* request, a retry or a new call, starts at the top of the loop.
LimiterRequestDone(c, ms) ==
  /\ limiter.pc # "idle"
  /\ c \in DOMAIN limiter.cst
  /\ limiter.cst[c] = "inflight"
  /\ ms # LatencyMs => limiter.slow < MaxSlowCalls
  /\ NoneDueBefore(limiter, limiter.now + ms)
  /\ limiter' = [limiter EXCEPT !.now = limiter.now + ms,
                                !.slow = IF ms = LatencyMs THEN limiter.slow
                                         ELSE limiter.slow + 1,
                                !.cst[c] = "enforce"]
  /\ UNCHANGED <<retrier, lister, cpool, rwc, mock>>

\* ===================================================================
\* The mock API's list endpoint: GET /api/campaigns (mock-api/server.js)
\* ===================================================================

\* has_more: page < 10
mockLastPage == 10

\* The page query parameters tried.
MockPages == {1, 9, 10}

\* No response is sent.
NoAnswer == 0

\* requestCounter = 0; answer is what the latest request got, handled what
\* the latest request that reached the route handler got.
MockCore ==
  mock = [requestCounter |-> 0,
          answer |-> [status |-> NoAnswer, page |-> 0, has_more |-> FALSE],
          handled |-> NoAnswer, pc |-> "listening"]

\* The route handler, for the value requestCounter has after its increment:
\* 503 when it is a multiple of 5; else no response when it is a multiple of
\* 10; else the page.
ListHandler(counter, pg) ==
  IF counter % 5 = 0
    THEN [status |-> 503, page |-> 0, has_more |-> FALSE]
  ELSE IF counter % 10 = 0
    THEN [status |-> NoAnswer, page |-> 0, has_more |-> FALSE]
  ELSE [status |-> 200, page |-> pg, has_more |-> pg < mockLastPage]

\* GET /api/campaigns?page=...: authMiddleware answers 401 without a Bearer
\* token, rateLimitMiddleware answers 429 when the client has RATE_LIMIT
\* requests in its window (limited; the window is not modelled), else the
\* route handler runs.
MockListRequest(bearer, limited, pg) ==
  /\ mock.pc # "idle"
  /\ mock.requestCounter < MaxMockRequests
  /\ mock' =
       IF ~bearer
         THEN [mock EXCEPT !.answer = [status |-> 401, page |-> 0,
                                       has_more |-> FALSE]]
       ELSE IF limited
         THEN [mock EXCEPT !.answer = [status |-> 429, page |-> 0,
                                       has_more |-> FALSE]]
       ELSE LET a == ListHandler(mock.requestCounter + 1, pg) IN
              [mock EXCEPT !.requestCounter = mock.requestCounter + 1,
                           !.answer = a, !.handled = a.status]
  /\ UNCHANGED <<retrier, lister, cpool, rwc, limiter>>

\* ===================================================================
\* Specifications
\* ===================================================================

\* The repository at rest, for the specifications of the other components.
RepoIdle == RepoCore /\ repoWorkers = {}

\* The other drivers at rest.
AltIdle == PagerIdle /\ BackoffIdle /\ CampIdle /\ ExtIdle

\* No run of syncAllCampaigns and no process around it, for the
\* specifications of the components.
RunIdle == rpc = "idle" /\ runCause = "none" /\ ProcCore /\ AltIdle

InitDispatch == DispatchCore /\ AuthCore /\ CallerCore /\ ClientIdle /\ RepoIdle
                /\ RunIdle

DispatchOnly ==
  UNCHANGED <<authVars, callerVars, clientVars, repoVars, runVars, procVars,
              altVars, extVars>>

NextDispatch ==
  \/ StartBatch /\ DispatchOnly
  \/ \E c \in 1..numCampaigns : SyncResolves(c) /\ DispatchOnly
  \/ \E c \in 1..numCampaigns : SyncThrows(c) /\ DispatchOnly
  \/ \E c \in 1..numCampaigns : SaveResolves(c) /\ DispatchOnly
  \/ \E c \in 1..numCampaigns : SaveThrows(c) /\ DispatchOnly
  \/ BatchSettled /\ DispatchOnly
  \/ DelayDone /\ DispatchOnly
  \/ ReturnResults /\ DispatchOnly

SpecDispatch == InitDispatch /\ [][NextDispatch]_vars

\* The dispatcher at rest, for the specifications of the other components.
DispatchIdle ==
  /\ numCampaigns = 0
  /\ opFails = <<>>
  /\ useMock = TRUE
  /\ batchIndex = 0
  /\ dpc = "loop"
  /\ op = <<>>
  /\ results = [totalCampaigns |-> 0, successCount |-> 0, failureCount |-> 0,
                errors |-> <<>>]

InitAuth == DispatchIdle /\ AuthCore /\ CallerCore /\ ClientIdle /\ RepoIdle
                /\ RunIdle

AuthOnly ==
  UNCHANGED <<dispVars, clientVars, repoVars, runVars, procVars, altVars, extVars>>

NextAuth ==
  \/ \E p \in Callers : GetAccessToken(p) /\ AuthOnly
  \/ \E p \in Callers, h \in BOOLEAN :
       AuthResponds(p, h) /\ UNCHANGED <<authCalls, authRetries, callsStarted,
                                         missCalls>> /\ AuthOnly
  \/ \E p \in Callers, o \in {"status", "timeout", "reset"} :
       AuthFails(p, o, now) /\ UNCHANGED <<now, authCalls, authRetries,
                                         callsStarted, missCalls>> /\ AuthOnly
  \/ \E p \in Callers : AuthRetry(p) /\ AuthOnly
  \/ ClearToken /\ AuthOnly
  \/ Tick /\ AuthOnly

SpecAuth == InitAuth /\ [][NextAuth]_vars

InitClient == DispatchIdle /\ AuthCore /\ CallerCore /\ ClientCore /\ RepoIdle
              /\ RunIdle

ClientOnly == UNCHANGED <<dispVars, repoVars, runVars, procVars, altVars, extVars>>

NextClient ==
  \/ StartAttempt /\ ClientOnly
  \/ TokenObtained /\ ClientOnly
  \/ TokenMissing /\ ClientOnly
  \/ \E o \in {"status", "timeout"} : TokenAttemptFails(o) /\ ClientOnly
  \/ TokenRetry /\ ClientOnly
  \/ PageArrives /\ ClientOnly
  \/ \E r \in RetryAfterChoices : RateLimited(r) /\ ClientOnly
  \/ RateLimitWaitDone /\ ClientOnly
  \/ Unauthorized /\ ClientOnly
  \/ \E c \in {503, 504, 404, 408} : ErrorStatus(c) /\ ClientOnly
  \/ RequestTimesOut /\ ClientOnly
  \/ ConnectionReset /\ ClientOnly
  \/ BackoffDone /\ ClientOnly

SpecClient == InitClient /\ [][NextClient]_vars

RunOnly ==
  UNCHANGED <<authVars, callerVars, clientVars, repoVars, procVars, altVars, extVars>>

NextRun ==
  \/ FetchAllReturns /\ RunOnly
  \/ \E cause \in {"auth", "pagination"} : FetchAllThrows(cause) /\ RunOnly
  \/ Dispatching(StartBatch) /\ RunOnly
  \/ \E c \in 1..numCampaigns : Dispatching(SyncResolves(c)) /\ RunOnly
  \/ \E c \in 1..numCampaigns : Dispatching(SyncThrows(c)) /\ RunOnly
  \/ \E c \in 1..numCampaigns : Dispatching(SaveResolves(c)) /\ RunOnly
  \/ \E c \in 1..numCampaigns : Dispatching(SaveThrows(c)) /\ RunOnly
  \/ Dispatching(BatchSettled) /\ RunOnly
  \/ Dispatching(DelayDone) /\ RunOnly
  \/ Dispatching(ReturnResults) /\ RunOnly
  \/ RunEnds /\ RunOnly

InitRun ==
  /\ RunCore /\ AuthCore /\ CallerCore /\ ClientIdle /\ RepoIdle /\ ProcCore
  /\ AltIdle
  /\ srvLifetime = REFRESH_BUFFER

SpecRun == InitRun /\ [][NextRun]_vars

\* fetchAllCampaigns against a remote that fails but recovers in time; the
\* event loop runs every step that is ready.
RecoveringCore ==
  /\ srvProfile \in {"recovering", "recoveringSlow"}
  /\ srvPages \in 1..MaxRecoveringPages
  /\ srvLastCount \in {1, limit}
  /\ faults = 0
  /\ fpc = "attempt"
  /\ page = 1
  /\ hasMore = TRUE
  /\ allCampaigns = <<>>
  /\ fetched = <<>>
  /\ stack = <<1>>
  /\ wake = 0
  /\ req = NewRequest

InitRecovering ==
  /\ DispatchIdle /\ AuthCore /\ CallerCore /\ RecoveringCore /\ RepoIdle
  /\ RunIdle

NextRecovering ==
  \/ StartAttempt /\ ClientOnly
  \/ TokenObtained /\ ClientOnly
  \/ PageArrives /\ ClientOnly
  \/ \E r \in RetryAfterChoices : RateLimited(r) /\ ClientOnly
  \/ RateLimitWaitDone /\ ClientOnly
  \/ ErrorStatus(503) /\ ClientOnly
  \/ RequestTimesOut /\ ClientOnly
  \/ BackoffDone /\ ClientOnly

SpecRecovering ==
  InitRecovering /\ [][NextRecovering]_vars /\ WF_vars(NextRecovering)

\* The dispatcher at rest with either kind of database.
DispatchIdleAnyDb ==
  /\ numCampaigns = 0
  /\ opFails = <<>>
  /\ useMock \in BOOLEAN
  /\ batchIndex = 0
  /\ dpc = "loop"
  /\ op = <<>>
  /\ results = [totalCampaigns |-> 0, successCount |-> 0, failureCount |-> 0,
                errors |-> <<>>]

RepoOnly ==
  UNCHANGED <<dispVars, authVars, callerVars, clientVars, runVars, procVars,
              altVars, extVars>>

NextRepo ==
  \/ \E w \in repoWorkers, id \in CampaignIds, v \in Versions :
       SaveCampaign(w, Campaign(id, v)) /\ RepoOnly
  \/ \E w \in repoWorkers : QueryResolves(w) /\ RepoOnly
  \/ \E w \in repoWorkers : QueryRejects(w) /\ RepoOnly
  \/ DbTick /\ RepoOnly

\* saveCampaign called again and again, each call awaited before the next.
InitRepoSeq ==
  /\ DispatchIdleAnyDb /\ AuthCore /\ CallerCore /\ ClientIdle /\ RepoCore
  /\ RunIdle
  /\ repoWorkers = {1}

SpecRepoSeq == InitRepoSeq /\ [][NextRepo]_vars

\* saveCampaign called by workers that run at the same time.
InitRepo ==
  /\ DispatchIdleAnyDb /\ AuthCore /\ CallerCore /\ ClientIdle /\ RepoCore
  /\ RunIdle
  /\ repoWorkers = Workers

SpecRepo == InitRepo /\ [][NextRepo]_vars

\* One process run: main() around syncAllCampaigns against either kind of
\* database, with SIGINT/SIGTERM arriving at any time.
ProcRunCore ==
  /\ numCampaigns \in 0..MaxProcCampaigns
  /\ opFails \in [1..numCampaigns -> {"none", "sync", "save"}]
  /\ useMock \in BOOLEAN
  /\ batchIndex = 0
  /\ dpc = "loop"
  /\ op = [c \in 1..numCampaigns |-> "pending"]
  /\ results = [totalCampaigns |-> numCampaigns, successCount |-> 0,
                failureCount |-> 0, errors |-> <<>>]
  /\ rpc = "fetching"
  /\ runCause = "none"

InitProc ==
  /\ ProcRunCore /\ AuthCore /\ CallerCore /\ ClientIdle /\ RepoIdle /\ ProcCore
  /\ AltIdle
  /\ srvLifetime = REFRESH_BUFFER

ProcOnly == UNCHANGED <<authVars, callerVars, clientVars, repoVars, altVars, extVars>>

NextProc ==
  \/ RunStep(FetchAllReturns) /\ ProcOnly
  \/ RunStep(FetchAllThrows("pagination")) /\ ProcOnly
  \/ RunStep(Dispatching(StartBatch)) /\ ProcOnly
  \/ \E c \in 1..numCampaigns : SyncResolvesAndSaves(c) /\ ProcOnly
  \/ \E c \in 1..numCampaigns : RunStep(Dispatching(SyncThrows(c))) /\ ProcOnly
  \/ \E c \in 1..numCampaigns : QuerySucceeds(c) /\ ProcOnly
  \/ \E c \in 1..numCampaigns : QueryFails(c) /\ ProcOnly
  \/ \E c \in 1..numCampaigns : QueryRefused(c) /\ ProcOnly
  \/ RunStep(Dispatching(BatchSettled)) /\ ProcOnly
  \/ RunStep(Dispatching(DelayDone)) /\ ProcOnly
  \/ RunStep(Dispatching(ReturnResults)) /\ ProcOnly
  \/ RunStep(RunEnds) /\ ProcOnly
  \/ MainResumes /\ ProcOnly
  \/ Signal /\ ProcOnly
  \/ PoolEndResolves /\ ProcOnly
  \/ RejectionCrashes /\ ProcOnly
  \/ ProcessDrains /\ ProcOnly

SpecProc == InitProc /\ [][NextProc]_vars

\* syncAllCampaigns with its fetchAllCampaigns spelt out: the listing is
\* fetched page by page from a remote that may answer 503, 429 or 404, and
\* what it returns (campaigns 1..numCampaigns) is dispatched.
PipelineCore ==
  /\ srvProfile = "hiccup"
  /\ srvPages \in 1..MaxSrvPages
  /\ srvLastCount \in {1, limit}
  /\ faults = 0
  /\ fpc = "attempt"
  /\ page = 1
  /\ hasMore = TRUE
  /\ allCampaigns = <<>>
  /\ fetched = <<>>
  /\ stack = <<1>>
  /\ wake = 0
  /\ req = NewRequest
  /\ numCampaigns = (srvPages - 1) * limit + srvLastCount
  /\ opFails \in {[c \in 1..numCampaigns |-> IF c = 1 THEN f ELSE "none"] :
                    f \in {"none", "sync", "save"}}
  /\ useMock \in BOOLEAN
  /\ batchIndex = 0
  /\ dpc = "loop"
  /\ op = [c \in 1..numCampaigns |-> "pending"]
  /\ results = [totalCampaigns |-> numCampaigns, successCount |-> 0,
                failureCount |-> 0, errors |-> <<>>]
  /\ rpc = "fetching"
  /\ runCause = "none"

InitPipeline ==
  /\ PipelineCore /\ AuthCore /\ CallerCore /\ RepoIdle /\ ProcCore /\ AltIdle
  /\ srvLifetime = REFRESH_BUFFER + 2

\* The array handed on as soon as the first page is there.
FirstPageFetched == Len(fetched) >= 1

\* await adPlatformClient.fetchAllCampaigns() resumes when the call has
\* returned its array.
FetchComplete == fpc = "done"

NextPipeline ==
  \/ StartAttempt /\ ClientOnly
  \/ TokenObtained /\ ClientOnly
  \/ PageArrives /\ ClientOnly
  \/ \E r \in RetryAfterChoices : RateLimited(r) /\ ClientOnly
  \/ RateLimitWaitDone /\ ClientOnly
  \/ \E c \in {503, 404} : ErrorStatus(c) /\ ClientOnly
  \/ BackoffDone /\ ClientOnly
  \/ FetchComplete /\ FetchAllReturns /\ RunOnly
  \/ fpc = "failed" /\ FetchAllThrows("pagination") /\ RunOnly
  \/ Dispatching(StartBatch) /\ RunOnly
  \/ \E c \in 1..numCampaigns : Dispatching(SyncResolves(c)) /\ RunOnly
  \/ \E c \in 1..numCampaigns : Dispatching(SyncThrows(c)) /\ RunOnly
  \/ \E c \in 1..numCampaigns : Dispatching(SaveResolves(c)) /\ RunOnly
  \/ \E c \in 1..numCampaigns : Dispatching(SaveThrows(c)) /\ RunOnly
  \/ Dispatching(BatchSettled) /\ RunOnly
  \/ Dispatching(DelayDone) /\ RunOnly
  \/ Dispatching(ReturnResults) /\ RunOnly
  \/ RunEnds /\ RunOnly

SpecPipeline == InitPipeline /\ [][NextPipeline]_vars

\* The other drivers, each on its own; everything else is at rest.
AltOnly ==
  UNCHANGED <<dispVars, authVars, callerVars, clientVars, repoVars, runVars,
              procVars, extVars>>

AltRest ==
  /\ DispatchIdle /\ AuthCore /\ CallerCore /\ ClientIdle /\ RepoIdle
  /\ rpc = "idle" /\ runCause = "none" /\ ProcCore /\ ExtIdle

InitPager == AltRest /\ PagerCore /\ BackoffIdle /\ CampIdle

NextPager ==
  \/ PageAnswered /\ AltOnly
  \/ PageRequestFails /\ AltOnly
  \/ PageSynced /\ AltOnly

SpecPager == InitPager /\ [][NextPager]_vars

InitBackoff == AltRest /\ PagerIdle /\ BackoffCore /\ CampIdle

NextBackoff ==
  \/ RetrySleeps /\ AltOnly
  \/ RequestSleeps /\ AltOnly
  \/ NextAttemptFails /\ AltOnly

SpecBackoff == InitBackoff /\ [][NextBackoff]_vars

InitCamp == AltRest /\ PagerIdle /\ BackoffIdle /\ CampCore

NextCamp ==
  \/ \E st \in SyncStatuses : SyncAnswered(st) /\ AltOnly
  \/ SyncRequestThrows /\ AltOnly
  \/ SyncWaitDone /\ AltOnly
  \/ CampSaved /\ AltOnly
  \/ CampSaveThrows /\ AltOnly
  \/ CampBackoffDone /\ AltOnly

SpecCamp == InitCamp /\ [][NextCamp]_vars

\* The retry helpers, fetch loops, concurrency helpers and the mock API, each
\* on its own; everything else is at rest.
ExtOnly ==
  UNCHANGED <<dispVars, authVars, callerVars, clientVars, repoVars, runVars,
              procVars, altVars>>

ExtRest ==
  /\ DispatchIdle /\ AuthCore /\ CallerCore /\ ClientIdle /\ RepoIdle
  /\ rpc = "idle" /\ runCause = "none" /\ ProcCore
  /\ PagerIdle /\ BackoffIdle /\ CampIdle

InitRetrier ==
  /\ ExtRest /\ RetrierCore
  /\ ListerIdle /\ CPoolIdle /\ RwcIdle /\ LimiterIdle /\ MockIdle

NextRetrier ==
  \/ \E st \in RetryStatuses : RetryAnswered(st) /\ ExtOnly
  \/ RetryRequestThrows /\ ExtOnly
  \/ RetryWaitDone /\ ExtOnly
  \/ RetrySleepDone /\ ExtOnly
  \/ RetryCallerSaves /\ ExtOnly

SpecRetrier == InitRetrier /\ [][NextRetrier]_vars

InitLister ==
  /\ ExtRest /\ ListerCore
  /\ RetrierIdle /\ CPoolIdle /\ RwcIdle /\ LimiterIdle /\ MockIdle

NextLister ==
  \/ \E st \in ListStatuses : ListAnswered(st) /\ ExtOnly
  \/ ListRequestThrows /\ ExtOnly
  \/ ListWaitDone /\ ExtOnly
  \/ ListSleepDone /\ ExtOnly

SpecLister == InitLister /\ [][NextLister]_vars

\* Every request is answered or times out and every timer fires: a loop that
\* can take a step eventually takes one.
SpecListerFair == SpecLister /\ WF_vars(NextLister)

InitCPool ==
  /\ ExtRest /\ CPoolCore
  /\ RetrierIdle /\ ListerIdle /\ RwcIdle /\ LimiterIdle /\ MockIdle

NextCPool ==
  \/ RunCalled /\ ExtOnly
  \/ \E j \in 1..MaxRunCalls + 1, outcome \in {"fulfilled", "rejected"} :
       JobSettles(j, outcome) /\ ExtOnly
  \/ \E i \in 1..MaxRunCalls + 1 : WaiterResumes(i) /\ ExtOnly

SpecCPool == InitCPool /\ [][NextCPool]_vars

InitRwc ==
  /\ ExtRest /\ RwcCore
  /\ RetrierIdle /\ ListerIdle /\ CPoolIdle /\ LimiterIdle /\ MockIdle

NextRwc ==
  \/ \E w \in 1..MaxWorkers + 1 : WorkerTakes(w) /\ ExtOnly
  \/ \E w \in 1..MaxWorkers + 1, outcome \in {"fulfilled", "rejected"} :
       HandlerSettles(w, outcome) /\ ExtOnly

SpecRwc == InitRwc /\ [][NextRwc]_vars

InitLimiter ==
  /\ ExtRest /\ LimiterCore
  /\ RetrierIdle /\ ListerIdle /\ CPoolIdle /\ RwcIdle /\ MockIdle

NextLimiter ==
  \/ \E c \in 1..MaxLimiterCallers + 1 : EnforceClientRateLimit(c) /\ ExtOnly
  \/ \E c \in 1..MaxLimiterCallers + 1 : LimiterSleepOver(c) /\ ExtOnly
  \/ \E c \in 1..MaxLimiterCallers + 1, ms \in {LatencyMs, SlowLatencyMs} :
       LimiterRequestDone(c, ms) /\ ExtOnly

SpecLimiter == InitLimiter /\ [][NextLimiter]_vars

InitMock ==
  /\ ExtRest /\ MockCore
  /\ RetrierIdle /\ ListerIdle /\ CPoolIdle /\ RwcIdle /\ LimiterIdle

NextMock ==
  \E bearer \in BOOLEAN, limited \in BOOLEAN, pg \in MockPages :
    MockListRequest(bearer, limited, pg) /\ ExtOnly

SpecMock == InitMock /\ [][NextMock]_vars

\* ------------------------------------------------------------ C1

\* C1: at every instant the number of syncSingleCampaign operations that have
\* started and not yet finished is at most config.sync.concurrency.
BoundedConcurrency == Cardinality(InFlight) <= concurrency

\* The limit is met while further campaigns are still waiting to be started.
BoundedConcurrencyWitness ==
  /\ numCampaigns > concurrency
  /\ Cardinality(InFlight) = concurrency
  /\ \E c \in InFlight : op[c] = "save"
  /\ \E c \in 1..numCampaigns : op[c] = "pending"

\* ------------------------------------------------------------ C2

\* The campaigns whose operation throws.
Throwing ==
  {c \in 1..numCampaigns : opFails[c] = "sync" \/ SaveThrowsFor(c)}

\* C2: when some campaign's operation always throws, the dispatcher still runs
\* the operation of every campaign and returns with the failures counted and
\* recorded: failureCount is the number of throwing campaigns (1 for a single
\* one) and successCount is the rest.
PartialFailureIsolation ==
  dpc = "returned" =>
    /\ \A c \in 1..numCampaigns : op[c] = "settled"
    /\ results.failureCount = Cardinality(Throwing)
    /\ results.successCount = numCampaigns - Cardinality(Throwing)
    /\ Range(results.errors) = Throwing

\* 5 records, record #3 throws: succeeded 4, failed 1.
PartialFailureWitness ==
  /\ dpc = "returned"
  /\ numCampaigns = 5
  /\ Throwing = {3}
  /\ results.successCount = 4
  /\ results.failureCount = 1

\* ------------------------------------------------------------ C9

CachedOnlyWhileValid ==
  \A p \in Callers :
    (cpc[p] = "returned") =>
      IF call[p].net = 0
        THEN /\ call[p].ret = call[p].cached
             /\ InValidityWindow(call[p].ret, call[p].startSec)
             /\ ~call[p].stale
        ELSE /\ call[p].ret # call[p].cached
             /\ call[p].ret.issued_at >= call[p].startSec

\* A call made at the instant the window closed, and a call made after
\* clearToken(), each returned a new token from its own exchange.
CachedOnlyWhileValidWitness ==
  /\ cleared # {}
  /\ \E p \in Callers :
       /\ cpc[p] = "returned"
       /\ call[p].cached # NULL
       /\ call[p].cached \notin cleared
       /\ call[p].net = 1
       /\ call[p].startSec = call[p].cached.issued_at
                             + call[p].cached.expires_in - REFRESH_BUFFER
  /\ \E q \in Callers :
       /\ cpc[q] = "returned"
       /\ call[q].cached = NULL
       /\ call[q].net >= 1
       /\ call[q].ret.serial > 1

\* ------------------------------------------------------------ C3

\* The records of a listing of srvPages pages, the last one of srvLastCount
\* records: ids 1, 2, ... in order, each once.
ExpectedRecords == [i \in 1..((srvPages - 1) * limit + srvLastCount) |-> i]

\* C3: against a server whose has_more is false only on its last page K,
\* fetchAllCampaigns returns exactly the records of pages 1..K in page order,
\* none missing and none twice, the last page possibly partial.
PaginationComplete ==
  (fpc = "done" /\ srvProfile # "flagStuck") => allCampaigns = ExpectedRecords

\* A listing of two pages with a partial last page was fetched although the
\* remote failed on the way.
PaginationCompleteWitness ==
  /\ fpc = "done"
  /\ srvProfile = "mixed"
  /\ srvPages = 2
  /\ srvLastCount = 1
  /\ faults > 0
  /\ Len(allCampaigns) = limit + 1

\* ------------------------------------------------------------ C4

\* The safety limit SUBMISSION.md documents for the pagination loop.
MAX_PAGES == 100

\* C4: fetchAllCampaigns requests a page only while the page counter is within
\* the hard ceiling MAX_PAGES, even when has_more is always true.
PageCeilingRespected == fpc = "fetch" => page <= MAX_PAGES

\* ------------------------------------------------------------ C5

\* C5: one logical request is retried after a 429 at most
\* MAX_RATE_LIMIT_RETRIES times, then it fails.
RateLimitRetriesBounded == req.n429 <= MAX_RATE_LIMIT_RETRIES

\* ------------------------------------------------------------ C6

\* C6: the attempt that follows a 429 with Retry-After: s goes out no earlier
\* than s seconds after the 429 arrived, and when it succeeds makeRequest
\* returns the page to its caller.
RateLimitRespected ==
  /\ (fpc = "fetch" /\ req.prevResp = 429) =>
       req.issuedAt >= req.rlAt + req.rlSeconds * 1000
  /\ (req.prevResp = 429 /\ req.lastResp = 200) =>
       (req.result = "ok" /\ fpc = "done")

\* A 429 with Retry-After: 2 was followed by an attempt that succeeded.
RateLimitRespectedWitness ==
  /\ fpc = "done"
  /\ req.n429 = 1
  /\ req.rlSeconds = 2
  /\ req.prevResp = 429
  /\ req.lastResp = 200
  /\ req.result = "ok"
  /\ req.issuedAt = req.rlAt + 2000

\* ------------------------------------------------------------ C7

\* C7: a request fails with 'Token expired' only after its second 401: the
\* first 401 is followed by one retry with a fresh token.
UnauthorizedRetriedOnce ==
  (req.result = "failed" /\ req.error = "tokenExpired") => req.n401 = 2

\* ------------------------------------------------------------ C8

\* C8: of the HTTP attempts of one logical request at most maxAttempts end in
\* 503, 504 or a timeout, however many 429 answers come in between.
TransientAttemptsBounded == req.nTransient <= maxAttempts

\* ------------------------------------------------------------ C11

\* C11: after saveCampaign(r) has been called N >= 1 times in a row, the row
\* of r.id is the row the first of these calls left, but for synced_at; and
\* no write lowers the synced_at of a row.
SaveIdempotent ==
  /\ [](\A id \in CampaignIds :
          saved[id].times >= 1 =>
            \E row \in table : /\ RowsOf(id) = {row}
                               /\ Content(row) = saved[id].first)
  /\ [][\A old \in table : \A new \in table' :
          new.id = old.id => new.synced_at >= old.synced_at]_vars

\* The same campaign was saved three times and synced_at advanced.
SaveIdempotentWitness ==
  \E id \in CampaignIds :
    /\ saved[id].times = 3
    /\ \E row \in table : /\ row.id = id
                          /\ Content(row) = saved[id].campaign
                          /\ row.synced_at = 2

\* ------------------------------------------------------------ C12

\* C12: the campaigns table never holds two rows of one id, also when callers
\* save the same id at the same time: an id that was written has exactly one
\* row, with the name, status, budget, impressions, clicks and conversions of
\* the write applied last.
OneRowPerId ==
  \A id \in CampaignIds :
    /\ Cardinality(RowsOf(id)) <= 1
    /\ saved[id].times = 0 => RowsOf(id) = {}
    /\ saved[id].times >= 1 =>
         \E row \in table : /\ RowsOf(id) = {row}
                            /\ Content(row) = saved[id].campaign

\* A write of an id was applied while an earlier-started statement for the
\* same id with other contents is still under way, and both ids have a row.
OneRowPerIdWitness ==
  /\ \A id \in CampaignIds : Cardinality(RowsOf(id)) = 1
  /\ \E w \in Workers : \E row \in table :
       /\ wpc[w] = "query"
       /\ stmt[w].campaign.id = row.id
       /\ stmt[w].campaign # saved[row.id].campaign
       /\ stmt[w].startedAt < row.synced_at

\* ------------------------------------------------------------ C13

\* C13: the pages fetchAllCampaigns has got are always 1, 2, ... in this
\* order, each once, and when it returns they are exactly 1..K, K the first
\* page whose has_more is false, whatever retries happened in between.
PagesInOrder ==
  /\ fetched = [i \in 1..Len(fetched) |-> i]
  /\ fpc = "done" => Len(fetched) = srvPages

\* Two pages were fetched, the second after a 429 and a 503.
PagesInOrderWitness ==
  /\ fpc = "done"
  /\ fetched = <<1, 2>>
  /\ req.n429 = 1
  /\ req.nTransient >= 1

\* ------------------------------------------------------------ C14

\* C14: when syncCampaignsWithConcurrency returns, no syncSingleCampaign call
\* is still under way and every input campaign was counted exactly once:
\* successCount + failureCount = totalCampaigns = campaigns.length, and errors
\* has failureCount entries.
AllJoinedAndCounted ==
  dpc = "returned" =>
    /\ InFlight = {}
    /\ \A c \in 1..numCampaigns : op[c] = "settled"
    /\ results.totalCampaigns = numCampaigns
    /\ results.successCount + results.failureCount = results.totalCampaigns
    /\ Len(results.errors) = results.failureCount

\* Two batches were joined, with failures in both of them.
AllJoinedAndCountedWitness ==
  /\ dpc = "returned"
  /\ numCampaigns = 4
  /\ batchIndex = 2
  /\ results.successCount = 2
  /\ results.failureCount = 2
  /\ Range(results.errors) = {2, 4}

\* ------------------------------------------------------------ C15

\* C15: syncAllCampaigns fails only before it starts dispatching, because of
\* authentication or pagination; once it dispatches, no per-campaign error
\* makes it throw, and it returns the SyncResult with every campaign counted.
RunFailsOnlyBeforeDispatch ==
  /\ rpc = "failed" =>
       /\ runCause \in {"auth", "pagination"}
       /\ batchIndex = 0
       /\ \A c \in 1..numCampaigns : op[c] = "pending"
  /\ (rpc = "dispatching" /\ dpc = "returned") => RunOutcome(results) = "returned"
  /\ rpc = "returned" =>
       results.successCount + results.failureCount = numCampaigns

\* The run returned although a sync call, a save and an authentication failed.
RunFailsOnlyBeforeDispatchWitness ==
  /\ rpc = "returned"
  /\ numCampaigns = 4
  /\ ~useMock
  /\ opFails = <<"sync", "save", "auth", "none">>
  /\ results.failureCount = 3
  /\ results.successCount = 1

\* ------------------------------------------------------------ C16

\* C16: once a campaign's operation has failed because the auth endpoint
\* rejected the credentials, no further per-campaign operation is started.
AuthRejectionStopsDispatch ==
  [][(\E c \in 1..numCampaigns : op[c] = "settled" /\ opFails[c] = "auth") =>
       \A c \in 1..numCampaigns : op[c] = "pending" => op'[c] = "pending"]_vars

\* ------------------------------------------------------------ C17

\* C17: when a page request fails for good after pages have been fetched, the
\* error that leaves fetchAllCampaigns carries the number of records
\* accumulated so far.
PartialCountSurfaced ==
  (fpc = "failed" /\ Len(allCampaigns) > 0) =>
    /\ "partialCount" \in DOMAIN req.thrown
    /\ req.thrown.partialCount = Len(allCampaigns)

\* ------------------------------------------------------------ C19

\* C19: a 4xx answer other than 429 and 401 makes the request fail at once,
\* with no backoff sleep and no further attempt.
ClientErrorFailsAtOnce ==
  (req.lastResp \in 400..499 /\ req.lastResp \notin {401, 429}) => fpc = "failed"

\* ------------------------------------------------------------ C20

\* C20: a timeout of one HTTP call ends that call only and is retried under
\* the backoff policy: the request fails with 'Request timeout' only when the
\* attempts of every retryWithBackoff around it are used up.
TimeoutIsRetried ==
  (fpc = "failed" /\ req.error = "requestTimeout") =>
    /\ req.thrownAt # <<>>
    /\ \A i \in 1..Len(req.thrownAt) : req.thrownAt[i] = maxAttempts

\* A call timed out, the request was retried and the listing completed.
TimeoutIsRetriedWitness ==
  /\ fpc = "done"
  /\ req.nTimeout >= 1
  /\ req.result = "ok"
  /\ allCampaigns = ExpectedRecords

\* ------------------------------------------------------------ C18

OneCallPerRefresh ==
  \A p \in Callers :
    (cpc[p] \in {"returned", "threw"} /\ call[p].net > 0) => call[p].net = 1

\* ------------------------------------------------------------ C28

\* C28: getAccessToken calls that overlap while no valid token is cached share
\* one credential exchange: no two callers have a refreshToken of their own
\* under way at the same time, and two calls that overlapped return the same
\* token.
SingleFlightRefresh ==
  \A p, q \in Callers :
    p # q =>
      /\ ~(cpc[p] \in {"fetching", "sleeping"} /\ cpc[q] \in {"fetching", "sleeping"})
      /\ (cpc[p] = "returned" /\ cpc[q] = "returned"
          /\ call[p].net > 0 /\ call[q].net > 0
          /\ call[p].startSec = call[q].startSec
          /\ call[p].cached = call[q].cached)
           => call[p].ret = call[q].ret

\* ------------------------------------------------------------ C22

\* C22: during one process run at most one Pool is created and every getPool
\* call returns that same Pool, however the getPool calls of the dispatcher's
\* workers and the closePool calls of main and the signal handlers interleave.
SinglePool ==
  /\ poolsCreated <= 1
  /\ Cardinality(handedOut) <= 1

\* getPool was called again after closePool had called pool.end(), and got
\* the Pool that was already there.
SinglePoolWitness ==
  /\ poolsCreated = 1
  /\ handedOut = {1}
  /\ endCalls[1] >= 1
  /\ refused # {}

\* ------------------------------------------------------------ C23

\* C23: pool.end() is never called twice on the same Pool, and when the
\* process has ended every Pool that was created has been released.
PoolReleasedOnce ==
  /\ \A i \in 1..poolsCreated : endCalls[i] <= 1
  /\ exitCode # Running => \A i \in 1..poolsCreated : poolState[i] = "ended"

\* ------------------------------------------------------------ C24

\* C24: once a signal has been received no per-record operation is started,
\* and the Pool is released by the signal handler only when no per-record
\* operation is in flight any more.
GracefulShutdown ==
  /\ [][Len(hpc) > 0 =>
          \A c \in 1..numCampaigns : op[c] = "pending" => op'[c] = "pending"]_vars
  /\ [](\A i \in 1..Len(hpc) : hpc[i] = "exited" => InFlight = {})

\* ------------------------------------------------------------ C25

\* C25: the process ends with status 0 only if no record has failed.
ExitStatusReflectsFailures ==
  exitCode = 0 => results.failureCount = 0

\* ------------------------------------------------------------ C29

\* A per-record operation has been started.
AnyStarted == \E c \in 1..numCampaigns : op[c] # "pending"

\* C29: syncAllCampaigns authenticates, paginates to completion, dispatches
\* and summarizes in that order: a page request goes out only with a token, a
\* per-record operation starts only after the page whose has_more is false
\* has been fetched, no page is fetched once a per-record operation has
\* started, and the run returns only when every operation has settled.
PhasesInOrder ==
  /\ [](fpc = "fetch" => accessToken # NULL)
  /\ [](AnyStarted =>
          /\ fpc = "done"
          /\ ~hasMore
          /\ fetched # <<>>
          /\ fetched[Len(fetched)] = srvPages
          /\ Len(allCampaigns) = numCampaigns)
  /\ [][AnyStarted => fetched' = fetched /\ page' = page]_vars
  /\ [](rpc = "returned" =>
          \A c \in 1..numCampaigns : op[c] = "settled")

\* Two pages were fetched through a 503 and all eleven campaigns were
\* dispatched before the run returned.
PhasesInOrderWitness ==
  /\ rpc = "returned"
  /\ fetched = <<1, 2>>
  /\ faults > 0
  /\ numCampaigns = limit + 1
  /\ results.successCount + results.failureCount = numCampaigns
  /\ results.failureCount = 1

\* ------------------------------------------------------------ C26

\* C26: the page-by-page loops end because of an empty page only when that
\* page's has_more is false.
FlagAuthoritative ==
  pager.end = "emptyPage" => ~RemotePage(pager.page).has_more

\* ------------------------------------------------------------ C27

\* delay = base * 2^n + random(0, base), capped at the maximum delay, for the
\* n-th retry (n = 0 for the first) and the draw r / 10 of the random source.
PolicyDelay(n, r) ==
  Min(baseDelay * Pow2(n) + (r * baseDelay) \div 10, maxDelayMs)

\* C27: the delay slept before a retry is base * 2^attempt plus the jitter
\* drawn from [0, base], and never more than the maximum delay.
BackoffWithinPolicy ==
  (backoff.pc = "sleeping" /\ backoff.retryAfter = 0) =>
    backoff.delay =
      PolicyDelay(IF backoff.fn = "retryWithBackoff"
                    THEN backoff.attempt - 1 ELSE backoff.attempt,
                  backoff.rnd)

\* ------------------------------------------------------------ C30

\* C30: saveCampaignToDB is called, and true returned, only after the sync
\* endpoint answered with a 2xx status.
SaveOnlyAfterSuccess ==
  /\ \A st \in camp.savedOn : st \in 200..299
  /\ camp.ret = "true" => camp.status \in 200..299

\* ------------------------------------------------------------ C31

\* C31: syncCampaignWithRetry returns normally, and its caller saves and
\* counts the campaign, only when one of its attempts was answered with a
\* 2xx status.
SyncReturnsOnlyOnSuccess ==
  (retrier.fn = "syncCampaignWithRetry" /\ retrier.pc = "returned")
    => \E i \in 1..Len(retrier.statuses) : retrier.statuses[i] \in 200..299

\* ------------------------------------------------------------ C39

\* C39: the statement after the loop of fetchWithRetry, throw new
\* Error("Unreachable"), is never executed.
UnreachableNeverRuns ==
  retrier.fn = "fetchWithRetry" => retrier.pc # "unreachable"

\* ------------------------------------------------------------ C32

\* C32: in fetchAllCampaigns of api/client.ts a page that has been answered
\* with 429 more than MAX_RATE_LIMIT_RETRIES times without a success is not
\* requested again: pagination has aborted.
RateLimitCeilingAborts ==
  (lister.fn = "apiClient" /\ lister.n429 > MAX_RATE_LIMIT_RETRIES)
    => lister.pc \notin {"fetch", "wait", "sleep"}

\* ------------------------------------------------------------ C36

\* C36: fetchAllCampaigns of repositories/campaignRepository.ts always
\* terminates: it returns the campaigns or surfaces a failure.
RepositoryFetchTerminates ==
  (lister.fn = "repository") ~> (lister.pc \in {"returned", "threw"})

\* ------------------------------------------------------------ C37

\* C37: in the monolithic syncAllCampaigns of part_015 a page is requested
\* at most 5 times.
PageRequestedAtMostFiveTimes ==
  lister.fn = "monolith" => lister.tries <= maxPageAttempts

\* ------------------------------------------------------------ C33

\* C33: at most limit of the functions passed to run are started and not yet
\* settled, also when one completion wakes several waiting run calls.
PoolLimitRespected == Cardinality(Unsettled(cpool)) <= cpool.limit

PoolLimitWitness ==
  /\ cpool.sharedWake /\ cpool.rewaited
  /\ Cardinality(Unsettled(cpool)) = cpool.limit
  /\ cpool.called > cpool.limit + 1

\* ------------------------------------------------------------ C34

\* C34: runWithConcurrency invokes handler at most once per element at any
\* time, and when its promise has settled, handler has been invoked exactly
\* once for every element of items and every invocation has finished.
EveryItemHandledOnce ==
  \A i \in 1..Len(rwc.items) :
    /\ rwc.invoked[i] <= 1
    /\ rwc.settled # "pending" => (rwc.invoked[i] = 1 /\ rwc.finished[i])

\* ------------------------------------------------------------ C35

\* C35: getPool never returns a Pool on which end() has been called: no
\* caller is handed a Pool that is ending or ended.
GetPoolReturnsUsablePool == refused = {}

\* ------------------------------------------------------------ C38

\* C38: no more than MAX_REQUESTS_PER_MINUTE requests leave the client in
\* any window of WINDOW_MS: of MAX_REQUESTS_PER_MINUTE + 1 requests in a row
\* the last leaves at least WINDOW_MS after the first.
ClientRateLimitHolds ==
  Len(limiter.sent) > MAX_REQUESTS_PER_MINUTE
    => limiter.sent[Len(limiter.sent)] - limiter.sent[1] >= WINDOW_MS

\* ------------------------------------------------------------ C40

\* C40: of the requests the list endpoint handles, every 10th is left
\* unanswered and every other 5th is answered 503.
FaultInjectionSchedule ==
  mock.requestCounter > 0 =>
    /\ mock.requestCounter % 10 = 0 => mock.handled = NoAnswer
    /\ (mock.requestCounter % 5 = 0 /\ mock.requestCounter % 10 # 0)
         => mock.handled = 503

====
